---- MODULE Spec2Model ----
(***************************************************************************)
(* Session orchestration of the browser-automation backend:                *)
(*   backend/src/agent/agent_manager.py   BrowserUseAgentManager            *)
(*   backend/src/agent/socket_manager.py  SocketManager                     *)
(*   backend/src/db/models.py             Task, TaskStep                    *)
(*                                                                         *)
(* Execution model.  The public coroutines of the manager (start, pause,   *)
(* resume, stop) run on the request event loop: they interleave with each  *)
(* other only at an await, and a blocking call (Thread.join) stops the     *)
(* whole loop.  Every accepted start launches a worker thread with a       *)
(* private event loop; worker threads run in parallel with the request     *)
(* loop.  The automation engine (agent.run()) is a task of the worker's    *)
(* private loop and advances only while the monitor is suspended in a      *)
(* sleep.                                                                  *)
(***************************************************************************)
EXTENDS Integers, Sequences, FiniteSets, TLC

\* ------------------------------------------------------------------ bounds
MaxCalls == 3        \* manager coroutines invoked over a run
MaxPolls == 2        \* monitor polls an engine run lasts in the base spec
MaxHistory == 2      \* history entries an engine run appends where the monitor is studied
MaxPublishes == 2    \* _send_step_update calls of a thread where a publish is studied
MaxWords == 2        \* phrases in the message of an exception of agent.run()

\* ------------------------------------------------------- program constants
browser_semaphore == 1   \* asyncio.Semaphore(1) of browser_use_service
max_steps == 50

PENDING == "pending"
RUNNING == "running"
PAUSED == "paused"
COMPLETED == "completed"
FAILED == "failed"
TaskStatus == {PENDING, RUNNING, PAUSED, COMPLETED, FAILED}

StepType_THINKING == "thinking"
StepType_ACTION == "action"
StepType_OBSERVATION == "observation"
StepType_ERROR == "error"
StepType == {StepType_THINKING, StepType_ACTION, StepType_OBSERVATION, StepType_ERROR}

None == "None"
StoppedByUser == "Task stopped by user"
ThreadStartFailed == "can't start new thread"       \* str(e) of Thread.start()'s RuntimeError
FailedToStart == "Failed to start agent session"
ExecutionFailed == "Agent execution failed: engine error"
MaxStepsExceeded == "Task exceeded maximum steps (50). Stopping execution."
TaskPaused == "Task paused by user. Agent is waiting for resume signal."
TaskResumed == "Task resumed. Agent is continuing execution."
CompletedWithResult == "Task completed successfully!"
CompletedWithoutResult == "Task completed (no specific result returned)"

TaskIds == {1, 2}    \* ids of the rows of the tasks table
Tasks == {1}         \* the task that is driven where one task is studied
SessionIds == {1, 2} \* AgentSession objects created over a run, in order of creation
Slots == {1, 2}      \* manager coroutines suspended at an await at once
WsOrder == <<"ws1", "ws2">>   \* the websockets, in the order in which they connect
WebSockets == {WsOrder[i] : i \in 1..Len(WsOrder)}

\* The threads that insert TaskStep rows: the request event loop (0) and the worker
\* of each session.  Rows carry the time of their insertion; the model keeps the
\* rows of one thread in the order it inserted them and does not keep the relative
\* time of rows of different threads.
RequestLoop == 0
Writers == {RequestLoop} \cup SessionIds

\* The shapes of history entry the engine appends: which of the optional
\* fields probed by _process_history_entry are present and truthy, and whether
\* serializing the entry's result (result.model_dump() or str(result)) raises.
EntryKinds ==
  { [current_state |-> TRUE,  action |-> TRUE,  result |-> TRUE,  error |-> FALSE,
     result_dump_raises |-> FALSE],
    [current_state |-> FALSE, action |-> FALSE, result |-> FALSE, error |-> TRUE,
     result_dump_raises |-> FALSE],
    [current_state |-> FALSE, action |-> FALSE, result |-> FALSE, error |-> FALSE,
     result_dump_raises |-> FALSE],
    [current_state |-> TRUE,  action |-> FALSE, result |-> TRUE,  error |-> TRUE,
     result_dump_raises |-> TRUE] }

VARIABLES
  task,                \* tasks table: task id -> Task row
  steps,               \* task_steps table: task id -> writing thread -> its rows in insertion order
  active_sessions,     \* BrowserUseAgentManager.active_sessions: task id -> session (0 = absent)
  sessions,            \* the AgentSession objects
  worker,              \* per session: the worker thread and its locals
  calls,               \* manager coroutines suspended on the request event loop
  returned,            \* the latest return of a manager coroutine to its caller
  callsLeft,           \* coroutines that may still be invoked
  limits,              \* what the environment does at most: sessions started, polls an
                       \* engine run lasts, entries the engine appends, coroutines of
                       \* the manager in flight at once
  active_connections,  \* SocketManager.active_connections: task id -> list of websockets
  ws_state,            \* websocket -> "new" | "open" | "closed"
  received,            \* websocket -> what its client has received, in order
  attempt,             \* one call of a service's engine runner: what agent.run() does
                       \* and what the runner makes of it
  publishing,          \* thread -> its call of _send_step_update, where one is studied
                       \* send by send
  listing,             \* the read of the map in progress on the request loop's thread:
                       \* get_session_status or get_active_sessions, key by key
  task_manager,        \* services/task_manager.py's TaskManager: active_tasks and
                       \* completed_tasks, task id -> record
  background,          \* EnhancedAutomationService: task id -> where its
                       \* execute_task_background and its stop_task are
  realtime             \* api/endpoints/browser_agent_realtime.py: the module's
                       \* active_connections, its websockets and the task running

vars == <<task, steps, active_sessions, sessions, worker,
          calls, returned, callsLeft, limits, active_connections, ws_state,
          received, publishing, attempt, listing, task_manager, background, realtime>>

\* ------------------------------------------------------------- record shapes
NoSession ==
  [task_id |-> 0, status |-> None, stop_event |-> FALSE, pause_event |-> FALSE,
   browser |-> FALSE]

NoWorker ==
  [pc |-> "unborn", step_count |-> 0, last_history_length |-> 0, history |-> <<>>,
   agent_task |-> "none", outcome |-> "none"]

IdleCall == [op |-> "none", task_id |-> 0, pc |-> "idle", session |-> 0]

NoReturn == [op |-> "none", task_id |-> 0, ret |-> FALSE]

\* TaskManager's record of a task, lines 36-49, in the fields the methods write;
\* NoRecord where a dict has no such key.
NoRecord == [status |-> None, result |-> None, error |-> None, session |-> None,
             cancel_event |-> None]

NoTasks == [active_tasks |-> [t \in TaskIds |-> NoRecord],
            completed_tasks |-> [t \in TaskIds |-> NoRecord]]

\* No start_task was made for the id, and no stop_task.
NoBackground == [pc |-> "none", stop |-> "none"]

\* browser_agent_realtime.py: no websocket yet, no task running.
NoRun == [pc |-> "none", session_id |-> 0, type |-> "none", i |-> 0, disconnected |-> <<>>]

NoRealtime ==
  [active_connections |-> <<>>,
   websocket |-> [ws \in WebSockets |-> [state |-> "new", session_id |-> 0, received |-> {}]],
   run |-> NoRun,
   raised |-> FALSE]

\* No read of the map is in progress and none has returned.  result maps the task
\* ids read to their statuses (Absent for an id not in the mapping returned);
\* used is the size the dict iterator found when it was made.
Absent == "absent"

NoListing ==
  [op |-> "none", pc |-> "idle", used |-> 0, visited |-> {},
   result |-> [t \in TaskIds |-> Absent], raised |-> FALSE]

\* No engine runner of a service is called.
NoAttempt ==
  [service |-> None, pc |-> "none", raised |-> FALSE, message |-> <<>>, completed |-> FALSE,
   success |-> FALSE, text |-> None]

\* No _send_step_update of the thread is in progress.
IdleFrame == [pc |-> "idle", task_id |-> 0, message |-> None, connections |-> <<>>, i |-> 0]

\* A TaskStep row.  The text of a message is kept up to the numbers formatted into it;
\* entry is the history entry whose serialized parts the row's content carries (0: none).
Step(type, message) == [step_type |-> type, message |-> message, entry |-> 0]

EntryStep(type, message, entry) == [step_type |-> type, message |-> message, entry |-> entry.id]

\* ------------------------------------------------------------ the two stores
\* No row of the tasks table has the id: the query's first() is None.
NoRow == [status |-> None, error_message |-> None, completed_at |-> 0, result |-> None]

\* _update_task_status: the row's status is overwritten whatever it was; the
\* error message only when one is given; completed_at on every terminal write.
\* Without a row (`if task:`, line 540) nothing is written.
update_task_status(tk, t, status, error_message, now) ==
  IF tk[t] = NoRow THEN tk
  ELSE
  [tk EXCEPT ![t] =
     [@ EXCEPT !.status = status,
               !.error_message = IF error_message # None THEN error_message ELSE @,
               !.completed_at = IF status \in {COMPLETED, FAILED} THEN now ELSE @]]

\* datetime.utcnow() at a terminal write: a time later than the one the row holds.
\* Times are counted in terminal writes; 0 stands for NULL.
utcnow(row) == row.completed_at + 1

\* _send_step_update: one TaskStep row appended.
send_step_update(st, t, by, step_type, message) ==
  [st EXCEPT ![t][by] = Append(@, Step(step_type, message))]

\* SocketManager.broadcast_to_task: a websocket whose send raises is
\* disconnected, the others stay.
broadcast_to_task(conns, t) ==
  [conns EXCEPT ![t] = SelectSeq(@, LAMBDA w : ws_state[w] = "open")]

\* The messages of SocketManager.send_status_change and send_step_update.  A
\* step_update carries the row; at, the row's writer and place among the writer's
\* rows, stands for the timestamp in its content.
StatusEvent(t, status, error_message) ==
  [type |-> "status_change", task_id |-> t, status |-> status, error_message |-> error_message]

StepEvent(t, by, k, row) ==
  [type |-> "step_update", task_id |-> t, step |-> row, at |-> <<by, k>>]

\* The step_update messages of rows appended after the first n rows of a writer.
StepEvents(t, by, n, rows) == [k \in 1..Len(rows) |-> StepEvent(t, by, n + k, rows[k])]

\* What the clients have received after broadcasts of the messages, one after
\* the other, each completed before the next: an open websocket gets a message
\* once for each time the task's list holds it.
RECURSIVE Repeated(_, _)
Repeated(messages, n) == IF n = 0 THEN <<>> ELSE messages \o Repeated(messages, n - 1)

RECURSIVE EachRepeated(_, _)
EachRepeated(messages, n) ==
  IF messages = <<>> THEN <<>>
  ELSE Repeated(<<Head(messages)>>, n) \o EachRepeated(Tail(messages), n)

\* A broadcast that reaches every open websocket, whatever task it is registered for.
deliver_to_all(rcv, conns, t, messages) ==
  [ws \in WebSockets |-> IF ws_state[ws] = "open" THEN rcv[ws] \o messages ELSE rcv[ws]]

deliver(rcv, conns, t, messages) ==
  [ws \in WebSockets |->
     IF ws_state[ws] = "open"
       THEN rcv[ws] \o EachRepeated(messages,
                                    Cardinality({i \in 1..Len(conns[t]) : conns[t][i] = ws}))
       ELSE rcv[ws]]

\* A committed status write and its status_change broadcast.
StatusWritten(t, status, error_message) ==
  /\ task' = update_task_status(task, t, status, error_message, utcnow(task[t]))
  /\ active_connections' = IF task[t] = NoRow THEN active_connections
                           ELSE broadcast_to_task(active_connections, t)
  /\ received' = deliver(received, active_connections, t,
                         IF task[t] = NoRow THEN <<>>
                         ELSE <<StatusEvent(t, status, error_message)>>)

\* _process_history_entry: the Steps one history entry yields.  An exception
\* raised on the way (here: by the serialization of the result) ends the
\* processing of the entry with the generic Step of the except branch.
process_history_entry(entry) ==
  (IF entry.current_state
     THEN <<EntryStep(StepType_THINKING, "Analyzing current state", entry)>> ELSE <<>>)
  \o (IF entry.action
     THEN <<EntryStep(StepType_ACTION, "Executing action", entry)>> ELSE <<>>)
  \o (IF entry.result /\ entry.result_dump_raises
       THEN <<EntryStep(StepType_OBSERVATION, "Agent executed step", entry)>>
       ELSE (IF entry.result
               THEN <<EntryStep(StepType_OBSERVATION, "Step completed", entry)>> ELSE <<>>)
            \o (IF entry.error
               THEN <<EntryStep(StepType_ERROR, "Error in step", entry)>> ELSE <<>>))

\* The for loop of the monitor over range(last_history_length, current_history_length):
\* i is the 0-based index of the entry history[i].
RECURSIVE process_new_entries(_, _, _)
process_new_entries(history, i, current_history_length) ==
  IF i >= current_history_length THEN <<>>
  ELSE process_history_entry(history[i + 1])
       \o process_new_entries(history, i + 1, current_history_length)

\* Rows appended by one operation, each followed by its step_update broadcast.
StepsWritten(t, by, rows) ==
  /\ steps' = [steps EXCEPT ![t][by] = @ \o rows]
  /\ active_connections' = broadcast_to_task(active_connections, t)
  /\ received' = deliver(received, active_connections, t,
                         StepEvents(t, by, Len(steps[t][by]), rows))

\* A Step row and then a status write, each with its broadcast.
StepAndStatusWritten(t, by, step_type, message, status, error_message) ==
  /\ steps' = send_step_update(steps, t, by, step_type, message)
  /\ task' = update_task_status(task, t, status, error_message, utcnow(task[t]))
  /\ active_connections' = broadcast_to_task(active_connections, t)
  /\ received' = deliver(received, active_connections, t,
                         <<StepEvent(t, by, Len(steps[t][by]) + 1, Step(step_type, message))>>
                         \o (IF task[t] = NoRow THEN <<>>
                             ELSE <<StatusEvent(t, status, error_message)>>))

\* ------------------------------------------------------------------- Init
Init ==
  /\ task = [t \in TaskIds |->
       [status |-> PENDING, error_message |-> None, completed_at |-> 0, result |-> None]]
  /\ steps = [t \in TaskIds |-> [by \in Writers |-> <<>>]]
  /\ active_sessions = [t \in TaskIds |-> 0]
  /\ sessions = [s \in SessionIds |-> NoSession]
  /\ worker = [s \in SessionIds |-> NoWorker]
  /\ calls = [c \in Slots |-> IdleCall]
  /\ returned = NoReturn
  /\ callsLeft = MaxCalls
  /\ limits = [sessions |-> Cardinality(SessionIds), polls |-> MaxPolls, history |-> 0,
               inflight |-> Cardinality(Slots), subscribers |-> 1, publishes |-> 0]
  /\ active_connections = [t \in TaskIds |-> <<>>]
  /\ ws_state = [w \in WebSockets |-> "new"]
  /\ received = [w \in WebSockets |-> <<>>]
  /\ publishing = [p \in Writers |-> IdleFrame]
  /\ attempt = NoAttempt
  /\ listing = NoListing
  /\ task_manager = NoTasks
  /\ background = [t \in TaskIds |-> NoBackground]
  /\ realtime = NoRealtime

\* ------------------------------------------------- the request event loop
\* The loop's only thread is inside a coroutine: blocked in the Thread.join of
\* stop_agent_session, or between the thread start and the map insertion of
\* start_agent_session, which no await separates.
LoopBlocked ==
  \/ \E c \in Slots : calls[c].pc \in {"join", "started", "lookup", "del", "raised"}
  \/ listing.pc = "iter"

Free(c) == calls[c].pc = "idle"

\* A new coroutine takes the lowest free slot.
FreeSlot == CHOOSE c \in Slots : Free(c) /\ \A d \in Slots : Free(d) => c <= d

CanInvoke ==
  /\ callsLeft > 0
  /\ ~LoopBlocked
  /\ Cardinality({c \in Slots : ~Free(c)}) < limits.inflight

SessionsBorn == Cardinality({s \in SessionIds : worker[s].pc # "unborn"})

StartsPastCheck == Cardinality({c \in Slots : calls[c].op = "start" /\ calls[c].pc = "await_status"})

\* The coroutine in slot c returns r to its caller.
Returns(c, op, t, r) ==
  /\ calls' = [calls EXCEPT ![c] = IdleCall]
  /\ returned' = [op |-> op, task_id |-> t, ret |-> r]

\* A start that leaves out the membership check of line 78.
start_agent_session_unchecked(t) ==
  /\ CanInvoke
  /\ callsLeft' = callsLeft - 1
  /\ SessionsBorn + StartsPastCheck < limits.sessions
  /\ StatusWritten(t, RUNNING, None)
  /\ calls' = [calls EXCEPT ![FreeSlot] =
       [op |-> "start", task_id |-> t, pc |-> "await_status", session |-> 0]]
  /\ UNCHANGED <<steps, active_sessions, sessions, worker, returned, limits, attempt, listing, task_manager, background, realtime, ws_state, publishing>>

\* start_agent_session, lines 76-83: the membership check, then the status
\* write; the coroutine is suspended in the broadcast of the write.
start_agent_session(t) ==
  /\ CanInvoke
  /\ callsLeft' = callsLeft - 1
  /\ LET c == FreeSlot IN
     IF active_sessions[t] # 0
       THEN /\ Returns(c, "start", t, FALSE)
            /\ UNCHANGED <<task, steps, active_sessions, sessions,
                           worker, limits, attempt, listing, task_manager, background, realtime, active_connections, received, ws_state, publishing>>
       ELSE /\ SessionsBorn + StartsPastCheck < limits.sessions
            /\ StatusWritten(t, RUNNING, None)
            /\ calls' = [calls EXCEPT ![c] =
                 [op |-> "start", task_id |-> t, pc |-> "await_status", session |-> 0]]
            /\ UNCHANGED <<steps, active_sessions, sessions, worker, returned, limits, attempt, listing, task_manager, background, realtime, ws_state, publishing>>

\* A start that hands the new Session the events of the Sessions made earlier
\* for the task id.
start_agent_session_thread_reuses_events(c) ==
  /\ ~LoopBlocked
  /\ calls[c].op = "start" /\ calls[c].pc = "await_status"
  /\ LET s == SessionsBorn + 1
         t == calls[c].task_id
         old == {o \in SessionIds : sessions[o].task_id = t} IN
     /\ sessions' = [sessions EXCEPT ![s] =
          [task_id |-> t, status |-> RUNNING,
           stop_event |-> \E o \in old : sessions[o].stop_event,
           pause_event |-> \E o \in old : sessions[o].pause_event,
           browser |-> FALSE]]
     /\ worker' = [worker EXCEPT ![s] = [NoWorker EXCEPT !.pc = "init"]]
     /\ calls' = [calls EXCEPT ![c].pc = "started", ![c].session = s]
  /\ UNCHANGED <<task, steps, active_sessions, returned, callsLeft, limits, attempt, listing, task_manager, background, realtime,
                 active_connections, received, ws_state, publishing>>

\* start_agent_session, lines 86-99: a Session with fresh events, and its thread started.
start_agent_session_thread(c) ==
  /\ ~LoopBlocked
  /\ calls[c].op = "start" /\ calls[c].pc = "await_status"
  /\ LET s == SessionsBorn + 1
         t == calls[c].task_id IN
     /\ sessions' = [sessions EXCEPT ![s] =
          [task_id |-> t, status |-> RUNNING, stop_event |-> FALSE, pause_event |-> FALSE,
           browser |-> FALSE]]
     /\ worker' = [worker EXCEPT ![s] = [NoWorker EXCEPT !.pc = "init"]]
     /\ calls' = [calls EXCEPT ![c].pc = "started", ![c].session = s]
  /\ UNCHANGED <<task, steps, active_sessions, returned, callsLeft, limits, attempt, listing, task_manager, background, realtime,
                 active_connections, received, ws_state, publishing>>

\* start_agent_session, lines 101-104: the Session enters the map.  The worker
\* started at line 99 runs in parallel and may be anywhere by now.
start_agent_session_insert(c) ==
  /\ calls[c].op = "start" /\ calls[c].pc = "started"
  /\ active_sessions' = [active_sessions EXCEPT ![calls[c].task_id] = calls[c].session]
  /\ Returns(c, "start", calls[c].task_id, TRUE)
  /\ UNCHANGED <<task, steps, sessions, worker, callsLeft, limits, attempt, listing, task_manager, background, realtime,
                 active_connections, received, ws_state, publishing>>

\* start_agent_session, lines 106-109: Thread.start() raised (no thread could
\* be started); the handler writes failed with the exception's text.
start_agent_session_except(c) ==
  /\ ~LoopBlocked
  /\ calls[c].op = "start" /\ calls[c].pc = "await_status"
  /\ StatusWritten(calls[c].task_id, FAILED, ThreadStartFailed)
  /\ calls' = [calls EXCEPT ![c].pc = "except"]
  /\ UNCHANGED <<steps, active_sessions, sessions, worker, returned, callsLeft, limits, attempt, listing, task_manager, background, realtime,
                 ws_state, publishing>>

\* TaskService.create_task, lines 19-32: the Task row is new and pending, and
\* start_agent_session is awaited for its id.
create_task(t) ==
  /\ task[t].status = PENDING
  /\ start_agent_session(t)

\* TaskService.create_task, lines 34-38, after start_agent_session returned
\* False: the row is written and committed; nothing is sent.
create_task_not_started(c) ==
  /\ calls[c].op = "start" /\ calls[c].pc = "except"
  /\ task' = [task EXCEPT ![calls[c].task_id].status = FAILED,
                            ![calls[c].task_id].error_message = FailedToStart]
  /\ Returns(c, "start", calls[c].task_id, FALSE)
  /\ UNCHANGED <<steps, active_sessions, sessions, worker, callsLeft, limits, attempt, listing, task_manager, background, realtime,
                 active_connections, received, ws_state, publishing>>

\* pause_agent_session, lines 398-407.
pause_agent_session(t) ==
  /\ CanInvoke
  /\ callsLeft' = callsLeft - 1
  /\ LET c == FreeSlot
         s == active_sessions[t] IN
     IF s = 0
       THEN /\ Returns(c, "pause", t, FALSE)
            /\ UNCHANGED <<task, steps, active_sessions, sessions,
                           worker, limits, attempt, listing, task_manager, background, realtime, active_connections, received, ws_state, publishing>>
       ELSE /\ sessions' = [sessions EXCEPT ![s].pause_event = TRUE, ![s].status = PAUSED]
            /\ StatusWritten(t, PAUSED, None)
            /\ calls' = [calls EXCEPT ![c] =
                 [op |-> "pause", task_id |-> t, pc |-> "await_status", session |-> s]]
            /\ UNCHANGED <<steps, active_sessions, worker, returned, limits, attempt, listing, task_manager, background, realtime, ws_state, publishing>>

\* pause_agent_session, lines 408-415.
pause_agent_session_step(c) ==
  /\ ~LoopBlocked
  /\ calls[c].op = "pause" /\ calls[c].pc = "await_status"
  /\ LET t == calls[c].task_id IN
     /\ StepsWritten(t, RequestLoop, <<Step(StepType_OBSERVATION, TaskPaused)>>)
     /\ Returns(c, "pause", t, TRUE)
  /\ UNCHANGED <<task, active_sessions, sessions, worker, callsLeft,
                 limits, attempt, listing, task_manager, background, realtime, ws_state, publishing>>

\* A resume that leaves the pause event set.
resume_agent_session_keeps_pause(t) ==
  /\ CanInvoke
  /\ callsLeft' = callsLeft - 1
  /\ LET c == FreeSlot
         s == active_sessions[t] IN
     IF s = 0
       THEN /\ Returns(c, "resume", t, FALSE)
            /\ UNCHANGED <<task, steps, active_sessions, sessions,
                           worker, limits, attempt, listing, task_manager, background, realtime, active_connections, received, ws_state, publishing>>
       ELSE /\ sessions' = [sessions EXCEPT ![s].status = RUNNING]
            /\ StatusWritten(t, RUNNING, None)
            /\ calls' = [calls EXCEPT ![c] =
                 [op |-> "resume", task_id |-> t, pc |-> "await_status", session |-> s]]
            /\ UNCHANGED <<steps, active_sessions, worker, returned, limits, attempt, listing, task_manager, background, realtime, ws_state, publishing>>

\* resume_agent_session, lines 423-432.
resume_agent_session(t) ==
  /\ CanInvoke
  /\ callsLeft' = callsLeft - 1
  /\ LET c == FreeSlot
         s == active_sessions[t] IN
     IF s = 0
       THEN /\ Returns(c, "resume", t, FALSE)
            /\ UNCHANGED <<task, steps, active_sessions, sessions,
                           worker, limits, attempt, listing, task_manager, background, realtime, active_connections, received, ws_state, publishing>>
       ELSE /\ sessions' = [sessions EXCEPT ![s].pause_event = FALSE, ![s].status = RUNNING]
            /\ StatusWritten(t, RUNNING, None)
            /\ calls' = [calls EXCEPT ![c] =
                 [op |-> "resume", task_id |-> t, pc |-> "await_status", session |-> s]]
            /\ UNCHANGED <<steps, active_sessions, worker, returned, limits, attempt, listing, task_manager, background, realtime, ws_state, publishing>>

\* resume_agent_session, lines 433-440.
resume_agent_session_step(c) ==
  /\ ~LoopBlocked
  /\ calls[c].op = "resume" /\ calls[c].pc = "await_status"
  /\ LET t == calls[c].task_id IN
     /\ StepsWritten(t, RequestLoop, <<Step(StepType_OBSERVATION, TaskResumed)>>)
     /\ Returns(c, "resume", t, TRUE)
  /\ UNCHANGED <<task, active_sessions, sessions, worker, callsLeft,
                 limits, attempt, listing, task_manager, background, realtime, ws_state, publishing>>

\* A stop that marks the task failed although no Session is registered.
stop_agent_session_marks_failed(t) ==
  /\ CanInvoke
  /\ callsLeft' = callsLeft - 1
  /\ LET c == FreeSlot
         s == active_sessions[t] IN
     IF s = 0
       THEN /\ Returns(c, "stop", t, FALSE)
            /\ StatusWritten(t, FAILED, StoppedByUser)
            /\ UNCHANGED <<steps, active_sessions, sessions, worker, limits, attempt, listing, task_manager, background, realtime, ws_state, publishing>>
       ELSE /\ sessions' = [sessions EXCEPT ![s].stop_event = TRUE, ![s].pause_event = FALSE]
            /\ calls' = [calls EXCEPT ![c] =
                 [op |-> "stop", task_id |-> t, pc |-> "join", session |-> s]]
            /\ UNCHANGED <<task, steps, active_sessions, worker, returned,
                           limits, attempt, listing, task_manager, background, realtime, active_connections, received, ws_state, publishing>>

\* stop_agent_session, lines 448-468: the events are set and the browser is asked
\* to close (an effect inside the engine); the caller then blocks in Thread.join.
stop_agent_session(t) ==
  /\ CanInvoke
  /\ callsLeft' = callsLeft - 1
  /\ LET c == FreeSlot
         s == active_sessions[t] IN
     IF s = 0
       THEN /\ Returns(c, "stop", t, FALSE)
            /\ UNCHANGED <<task, steps, active_sessions, sessions,
                           worker, limits, attempt, listing, task_manager, background, realtime, active_connections, received, ws_state, publishing>>
       ELSE /\ sessions' = [sessions EXCEPT ![s].stop_event = TRUE, ![s].pause_event = FALSE]
            /\ calls' = [calls EXCEPT ![c] =
                 [op |-> "stop", task_id |-> t, pc |-> "join", session |-> s]]
            /\ UNCHANGED <<task, steps, active_sessions, worker, returned,
                           limits, attempt, listing, task_manager, background, realtime, active_connections, received, ws_state, publishing>>

\* stop_agent_session, lines 471-476: join returns, because the thread ended or
\* because the 10 s ran out, and the task is written failed.
stop_agent_session_join(c) ==
  /\ calls[c].op = "stop" /\ calls[c].pc = "join"
  /\ StatusWritten(calls[c].task_id, FAILED, StoppedByUser)
  /\ calls' = [calls EXCEPT ![c].pc = "await_status"]
  /\ UNCHANGED <<steps, active_sessions, sessions, worker, returned, callsLeft, limits, attempt, listing, task_manager, background, realtime, ws_state, publishing>>

\* stop_agent_session, lines 477-481.
stop_agent_session_step(c) ==
  /\ ~LoopBlocked
  /\ calls[c].op = "stop" /\ calls[c].pc = "await_status"
  /\ StepsWritten(calls[c].task_id, RequestLoop,
                  <<Step(StepType_OBSERVATION, "Task stopped by user request. Browser session closed.")>>)
  /\ calls' = [calls EXCEPT ![c].pc = "await_step"]
  /\ UNCHANGED <<task, active_sessions, sessions, worker, returned, callsLeft,
                 limits, attempt, listing, task_manager, background, realtime, ws_state, publishing>>

\* A stop that keeps the map entry of a Session whose thread outlived the join.
stop_agent_session_cleanup_if_exited(c) ==
  /\ ~LoopBlocked
  /\ calls[c].op = "stop" /\ calls[c].pc = "await_step"
  /\ LET t == calls[c].task_id IN
     /\ active_sessions' = [active_sessions EXCEPT ![t] =
          IF worker[calls[c].session].pc \in {"unborn", "dead"} THEN 0 ELSE @]
     /\ Returns(c, "stop", t, TRUE)
  /\ UNCHANGED <<task, steps, sessions, worker, callsLeft, limits, attempt, listing, task_manager, background, realtime,
                 active_connections, received, ws_state, publishing>>

\* stop_agent_session, lines 483-488: whatever the map holds for the id is removed.
stop_agent_session_cleanup(c) ==
  /\ ~LoopBlocked
  /\ calls[c].op = "stop" /\ calls[c].pc = "await_step"
  /\ LET t == calls[c].task_id IN
     /\ active_sessions' = [active_sessions EXCEPT ![t] = 0]
     /\ Returns(c, "stop", t, TRUE)
  /\ UNCHANGED <<task, steps, sessions, worker, callsLeft, limits, attempt, listing, task_manager, background, realtime,
                 active_connections, received, ws_state, publishing>>

\* --------------------------------------- the coroutines, raise by raise
\* The coroutines with the places where an exception can arise between their
\* statements: the worker thread's finally (lines 129-130) deletes the key of the
\* map between a membership test and the subscript or del that relies on it, and
\* KeyError is raised into the coroutine's handler.

\* start_agent_session, line 109 after the handler's status write.
start_agent_session_return_false(c) ==
  /\ calls[c].op = "start" /\ calls[c].pc = "except"
  /\ Returns(c, "start", calls[c].task_id, FALSE)
  /\ UNCHANGED <<task, steps, active_sessions, sessions, worker, callsLeft, limits, attempt, listing, task_manager, background, realtime,
                 active_connections, received, ws_state, publishing>>

\* pause_agent_session, resume_agent_session and stop_agent_session, lines 399-401,
\* 424-426 and 449-451: the membership test.
agent_session_check(op, t) ==
  /\ CanInvoke
  /\ callsLeft' = callsLeft - 1
  /\ LET c == FreeSlot IN
     IF active_sessions[t] = 0
       THEN Returns(c, op, t, FALSE)
       ELSE /\ calls' = [calls EXCEPT ![c] =
                 [op |-> op, task_id |-> t, pc |-> "lookup", session |-> 0]]
            /\ UNCHANGED returned
  /\ UNCHANGED <<task, steps, active_sessions, sessions, worker, limits, attempt, listing, task_manager, background, realtime,
                 active_connections, received, ws_state, publishing>>

\* Lines 403-407, 428-432 and 453-455: the subscript, which raises KeyError when
\* the key has gone since the test, and what the coroutine does with the Session.
agent_session_lookup(c) ==
  /\ calls[c].pc = "lookup"
  /\ LET t == calls[c].task_id
         s == active_sessions[t] IN
     IF s = 0
       THEN /\ calls' = [calls EXCEPT ![c].pc = "raised"]
            /\ UNCHANGED <<task, sessions, active_connections, received>>
       ELSE CASE calls[c].op = "pause" ->
                   /\ sessions' = [sessions EXCEPT ![s].pause_event = TRUE, ![s].status = PAUSED]
                   /\ StatusWritten(t, PAUSED, None)
                   /\ calls' = [calls EXCEPT ![c].pc = "await_status", ![c].session = s]
              [] calls[c].op = "resume" ->
                   /\ sessions' = [sessions EXCEPT ![s].pause_event = FALSE, ![s].status = RUNNING]
                   /\ StatusWritten(t, RUNNING, None)
                   /\ calls' = [calls EXCEPT ![c].pc = "await_status", ![c].session = s]
              [] OTHER ->
                   /\ sessions' = [sessions EXCEPT ![s].stop_event = TRUE, ![s].pause_event = FALSE]
                   /\ calls' = [calls EXCEPT ![c].pc = "join", ![c].session = s]
                   /\ UNCHANGED <<task, active_connections, received>>
  /\ UNCHANGED <<steps, active_sessions, worker, returned, callsLeft, limits, attempt, listing, task_manager, background, realtime,
                 ws_state, publishing>>

\* stop_agent_session, line 484: the membership test before the del.
stop_agent_session_cleanup_check(c) ==
  /\ ~LoopBlocked
  /\ calls[c].op = "stop" /\ calls[c].pc = "await_step"
  /\ IF active_sessions[calls[c].task_id] = 0
       THEN Returns(c, "stop", calls[c].task_id, TRUE)
       ELSE /\ calls' = [calls EXCEPT ![c].pc = "del"]
            /\ UNCHANGED returned
  /\ UNCHANGED <<task, steps, active_sessions, sessions, worker, callsLeft, limits, attempt, listing, task_manager, background, realtime,
                 active_connections, received, ws_state, publishing>>

\* stop_agent_session, lines 485-488: the del, which raises KeyError when the
\* key has gone since the test.
stop_agent_session_del(c) ==
  /\ calls[c].op = "stop" /\ calls[c].pc = "del"
  /\ LET t == calls[c].task_id IN
     IF active_sessions[t] = 0
       THEN /\ calls' = [calls EXCEPT ![c].pc = "raised"]
            /\ UNCHANGED <<active_sessions, returned>>
       ELSE /\ active_sessions' = [active_sessions EXCEPT ![t] = 0]
            /\ Returns(c, "stop", t, TRUE)
  /\ UNCHANGED <<task, steps, sessions, worker, callsLeft, limits, attempt, listing, task_manager, background, realtime,
                 active_connections, received, ws_state, publishing>>

\* A handler that logs the exception and reports success.
agent_session_except_returns_true(c) ==
  /\ calls[c].pc = "raised"
  /\ Returns(c, calls[c].op, calls[c].task_id, TRUE)
  /\ UNCHANGED <<task, steps, active_sessions, sessions, worker, callsLeft, limits, attempt, listing, task_manager, background, realtime,
                 active_connections, received, ws_state, publishing>>

\* The handlers of lines 417-419, 442-444 and 490-492: the exception is logged
\* and the coroutine returns False.
agent_session_except(c) ==
  /\ calls[c].pc = "raised"
  /\ Returns(c, calls[c].op, calls[c].task_id, FALSE)
  /\ UNCHANGED <<task, steps, active_sessions, sessions, worker, callsLeft, limits, attempt, listing, task_manager, background, realtime,
                 active_connections, received, ws_state, publishing>>

\* ------------------------------------------------------- the worker thread
ThreadAlive(s) == worker[s].pc \notin {"unborn", "dead"}

\* The worker once _run_agent_with_monitoring has returned: the monitor's locals
\* are gone, what is left is the agent and the way out the monitor took.
Left(w, outcome, agent_task) ==
  [NoWorker EXCEPT !.pc = "finalize", !.outcome = outcome, !.agent_task = agent_task,
                   !.history = w.history]

\* The Steps _execute_agent_async sends before the run, lines 143-199.
InitSteps ==
  << Step(StepType_THINKING, "Initializing browser automation for task"),
     Step(StepType_ACTION, "Starting browser session..."),
     Step(StepType_OBSERVATION, "Browser session started successfully"),
     Step(StepType_ACTION, "Initializing AI agent..."),
     Step(StepType_OBSERVATION, "AI agent initialized and ready"),
     Step(StepType_THINKING, "Agent is analyzing the task and planning execution strategy...") >>

\* _run_agent_thread, lines 113-120, and _execute_agent_async, lines 141-199, to the
\* creation of the engine task (lines 255-264).  The settings read, the Browser or
\* the Agent constructor may raise (ok = FALSE): here at line 150, after the first Step.
run_agent_thread(s, ok) ==
  /\ worker[s].pc = "init"
  /\ LET t == sessions[s].task_id IN
     IF ok
       THEN /\ StepsWritten(t, s, InitSteps)
            /\ sessions' = [sessions EXCEPT ![s].browser = TRUE]
            /\ worker' = [worker EXCEPT ![s].pc = "loop", ![s].agent_task = "running"]
       ELSE /\ StepsWritten(t, s, SubSeq(InitSteps, 1, 1))
            /\ worker' = [worker EXCEPT ![s] = Left(worker[s], "raise", "none")]
            /\ UNCHANGED sessions
  /\ UNCHANGED <<task, active_sessions, calls, returned, callsLeft, limits, attempt, listing, task_manager, background, realtime,
                 ws_state, publishing>>

\* A monitor that forgets to advance its cursor.
MonitorPoll_cursor_kept(s) ==
  LET w == worker[s]
      t == sessions[s].task_id
      current_history_length == Len(w.history)
      rows == process_new_entries(w.history, w.last_history_length, current_history_length)
      last == w.last_history_length
      step_count == w.step_count + 1
  IN /\ w.step_count < limits.polls
     /\ IF step_count > max_steps
          THEN /\ StepsWritten(t, s, rows \o <<Step(StepType_ERROR, MaxStepsExceeded)>>)
               /\ worker' = [worker EXCEPT ![s] = Left(w, "cap", "cancelled")]
          ELSE /\ StepsWritten(t, s, rows)
               /\ worker' = [worker EXCEPT ![s].pc = "loop",
                               ![s].last_history_length = last,
                               ![s].step_count = step_count]

\* _run_agent_with_monitoring, lines 287-309: the new history entries are turned
\* into Steps, the cursor advances, the poll is counted and the cap applied; then
\* the monitor sleeps one second.
MonitorPoll(s) ==
  LET w == worker[s]
      t == sessions[s].task_id
      current_history_length == Len(w.history)
      rows == process_new_entries(w.history, w.last_history_length, current_history_length)
      last == IF current_history_length > w.last_history_length
                THEN current_history_length ELSE w.last_history_length
      step_count == w.step_count + 1
  IN /\ w.step_count < limits.polls
     /\ IF step_count > max_steps
          THEN /\ StepsWritten(t, s, rows \o <<Step(StepType_ERROR, MaxStepsExceeded)>>)
               /\ worker' = [worker EXCEPT ![s] = Left(w, "cap", "cancelled")]
          ELSE /\ StepsWritten(t, s, rows)
               /\ worker' = [worker EXCEPT ![s].pc = "loop",
                               ![s].last_history_length = last,
                               ![s].step_count = step_count]

\* A monitor that does not look at the stop event and polls until the engine's
\* run is done.
run_agent_with_monitoring_awaits_engine(s) ==
  /\ worker[s].pc = "loop"
  /\ LET w == worker[s]
         t == sessions[s].task_id IN
     IF w.agent_task \in {"returned", "returned_empty", "raised"}
       THEN /\ worker' = [worker EXCEPT ![s] =
                 Left(w, CASE w.agent_task = "returned" -> "result"
                        [] w.agent_task = "returned_empty" -> "empty"
                        [] OTHER -> "raise", w.agent_task)]
            /\ UNCHANGED <<steps, active_connections, received>>
       ELSE IF sessions[s].pause_event
         THEN /\ worker' = [worker EXCEPT ![s].pc = "pause"]
              /\ UNCHANGED <<steps, active_connections, received>>
         ELSE MonitorPoll(s)
  /\ UNCHANGED <<task, active_sessions, sessions, calls, returned, callsLeft,
                 limits, attempt, listing, task_manager, background, realtime, ws_state, publishing>>

\* _run_agent_with_monitoring, lines 267-316, from the top of the while loop: the
\* loop ends when the engine task is done (its result or exception is taken at
\* lines 311-316); a set stop event cancels the task and returns None; a set pause
\* event sends the monitor into the pause wait; otherwise the monitor polls.
run_agent_with_monitoring(s) ==
  /\ worker[s].pc = "loop"
  /\ LET w == worker[s]
         t == sessions[s].task_id IN
     IF w.agent_task \in {"returned", "returned_empty", "raised"}
       THEN /\ worker' = [worker EXCEPT ![s] =
                 Left(w, CASE w.agent_task = "returned" -> "result"
                        [] w.agent_task = "returned_empty" -> "empty"
                        [] OTHER -> "raise", w.agent_task)]
            /\ UNCHANGED <<steps, active_connections, received>>
       ELSE IF sessions[s].stop_event
         THEN /\ StepsWritten(t, s, <<Step(StepType_OBSERVATION, "Task stopped by user request")>>)
              /\ worker' = [worker EXCEPT ![s] = Left(worker[s], "stop", "cancelled")]
         ELSE IF sessions[s].pause_event
           THEN /\ worker' = [worker EXCEPT ![s].pc = "pause"]
                /\ UNCHANGED <<steps, active_connections, received>>
           ELSE MonitorPoll(s)
  /\ UNCHANGED <<task, active_sessions, sessions, calls, returned, callsLeft,
                 limits, attempt, listing, task_manager, background, realtime, ws_state, publishing>>

\* A pause wait that ends after one sleep, whatever the events say.
run_agent_with_monitoring_pause_sleeps_once(s) ==
  /\ worker[s].pc = "pause"
  /\ IF sessions[s].stop_event
       THEN /\ worker' = [worker EXCEPT ![s] = Left(worker[s], "stop", "cancelled")]
            /\ UNCHANGED <<steps, active_connections, received>>
       ELSE MonitorPoll(s)
  /\ UNCHANGED <<task, active_sessions, sessions, calls, returned, callsLeft,
                 limits, attempt, listing, task_manager, background, realtime, ws_state, publishing>>

\* _run_agent_with_monitoring, lines 279-309, leaving the pause wait: it lasts while
\* the pause event is set and the stop event is not; a stop seen here cancels the
\* engine task and returns None without a Step; otherwise the monitor polls.
run_agent_with_monitoring_pause(s) ==
  /\ worker[s].pc = "pause"
  /\ ~(sessions[s].pause_event /\ ~sessions[s].stop_event)
  /\ IF sessions[s].stop_event
       THEN /\ worker' = [worker EXCEPT ![s] = Left(worker[s], "stop", "cancelled")]
            /\ UNCHANGED <<steps, active_connections, received>>
       ELSE MonitorPoll(s)
  /\ UNCHANGED <<task, active_sessions, sessions, calls, returned, callsLeft,
                 limits, attempt, listing, task_manager, background, realtime, ws_state, publishing>>

\* A monitor that swallows the exception of the engine's run as it does a
\* cancellation.
MonitorResult_swallows(outcome) ==
  CASE outcome = "result" -> "value"
    [] outcome = "empty"  -> "falsy"
    [] OTHER              -> None

\* The value _run_agent_with_monitoring hands back for each way out of it.
MonitorResult(outcome) ==
  CASE outcome = "result" -> "value"
    [] outcome = "empty"  -> "falsy"
    [] outcome = "stop"   -> None
    [] outcome = "cap"    -> None
    [] OTHER              -> "exception"

\* A finalization that copies the status it writes into the Session.
execute_agent_async_updates_mirror(s) ==
  /\ worker[s].pc = "finalize"
  /\ LET t == sessions[s].task_id
         result == MonitorResult(worker[s].outcome) IN
     /\ CASE result = "value" ->
              StepAndStatusWritten(t, s, StepType_OBSERVATION, CompletedWithResult,
                                   COMPLETED, None)
         [] result \in {"falsy", None} ->
              StepAndStatusWritten(t, s, StepType_OBSERVATION, CompletedWithoutResult,
                                   COMPLETED, None)
         [] OTHER ->
              StepAndStatusWritten(t, s, StepType_ERROR, ExecutionFailed,
                                   FAILED, ExecutionFailed)
     /\ sessions' = [sessions EXCEPT ![s].status =
          IF result \in {"value", "falsy", None} THEN COMPLETED ELSE FAILED]
  /\ worker' = [worker EXCEPT ![s] = [NoWorker EXCEPT !.pc = "cleanup", !.outcome = worker[s].outcome]]
  /\ UNCHANGED <<active_sessions, calls, returned, callsLeft, limits, attempt, listing, task_manager, background, realtime, ws_state, publishing>>

\* _execute_agent_async, lines 204-233: a truthy result and a falsy one (None too)
\* both end in COMPLETED; an exception ends in FAILED with its message.
execute_agent_async(s) ==
  /\ worker[s].pc = "finalize"
  /\ LET t == sessions[s].task_id
         result == MonitorResult(worker[s].outcome) IN
     CASE result = "value" ->
            StepAndStatusWritten(t, s, StepType_OBSERVATION, CompletedWithResult,
                                 COMPLETED, None)
       [] result \in {"falsy", None} ->
            StepAndStatusWritten(t, s, StepType_OBSERVATION, CompletedWithoutResult,
                                 COMPLETED, None)
       [] OTHER ->
            StepAndStatusWritten(t, s, StepType_ERROR, ExecutionFailed,
                                 FAILED, ExecutionFailed)
  /\ worker' = [worker EXCEPT ![s] = [NoWorker EXCEPT !.pc = "cleanup", !.outcome = worker[s].outcome]]
  /\ UNCHANGED <<active_sessions, sessions, calls, returned, callsLeft, limits, attempt, listing, task_manager, background, realtime, ws_state, publishing>>

\* _execute_agent_async, lines 235-251, then _run_agent_thread, lines 127-134: the
\* browser, when one was created, is closed (which may raise: closed = FALSE); the
\* entry the map holds for the task id is deleted; the thread ends.  The Session
\* object lives on only while the start that made it has yet to put it in the map.
\* A finally that writes the task failed when browser.close() raises.
run_agent_thread_finally_fails_task(s, closed) ==
  /\ worker[s].pc = "cleanup"
  /\ LET t == sessions[s].task_id IN
     /\ IF sessions[s].browser
          THEN /\ steps' = [steps EXCEPT ![t][s] =
                    @ \o <<Step(StepType_ACTION, "Closing browser session...")>>
                      \o (IF closed
                            THEN <<Step(StepType_OBSERVATION, "Browser session closed")>>
                            ELSE <<>>)]
               /\ active_connections' = broadcast_to_task(active_connections, t)
               /\ UNCHANGED received
               /\ task' = IF closed THEN task
                          ELSE update_task_status(task, t, FAILED, None, utcnow(task[t]))
          ELSE closed /\ UNCHANGED <<task, steps, active_connections, received>>
     /\ active_sessions' = [active_sessions EXCEPT ![t] = 0]
  /\ worker' = [worker EXCEPT ![s] = [NoWorker EXCEPT !.pc = "dead"]]
  /\ sessions' = [sessions EXCEPT ![s] =
       IF \E c \in Slots : calls[c].pc = "started" /\ calls[c].session = s
         THEN @ ELSE NoSession]
  /\ UNCHANGED <<calls, returned, callsLeft, limits, attempt, listing, task_manager, background, realtime, ws_state, publishing>>

run_agent_thread_finally(s, closed) ==
  /\ worker[s].pc = "cleanup"
  /\ LET t == sessions[s].task_id IN
     /\ IF sessions[s].browser
          THEN StepsWritten(t, s, <<Step(StepType_ACTION, "Closing browser session...")>>
                                  \o (IF closed
                                        THEN <<Step(StepType_OBSERVATION, "Browser session closed")>>
                                        ELSE <<>>))
          ELSE closed /\ UNCHANGED <<steps, active_connections, received>>
     /\ active_sessions' = [active_sessions EXCEPT ![t] = 0]
  /\ worker' = [worker EXCEPT ![s] = [NoWorker EXCEPT !.pc = "dead"]]
  /\ sessions' = [sessions EXCEPT ![s] =
       IF \E c \in Slots : calls[c].pc = "started" /\ calls[c].session = s
         THEN @ ELSE NoSession]
  /\ UNCHANGED <<task, calls, returned, callsLeft, limits, attempt, listing, task_manager, background, realtime, ws_state, publishing>>

\* ------------------------------------------------------ the engine, agent.run()
\* The engine task runs while the monitor is suspended: in the sleep of line 309
\* (pc "loop" after a first poll) or the sleep of line 280 (pc "pause").
EngineRuns(s) ==
  /\ worker[s].agent_task = "running"
  /\ \/ worker[s].pc = "loop" /\ worker[s].step_count >= 1
     \/ worker[s].pc = "pause"

EngineFrame ==
  UNCHANGED <<task, steps, active_sessions, sessions, calls,
              returned, callsLeft, limits, attempt, listing, task_manager, background, realtime, active_connections, received, ws_state, publishing>>

\* The engine appends an entry to agent.history; id tells the entries of a
\* history apart, as their contents do.
agent_history_append(s, entry) ==
  /\ EngineRuns(s)
  /\ Len(worker[s].history) < limits.history
  /\ worker' = [worker EXCEPT ![s].history =
       Append(@, [current_state |-> entry.current_state, action |-> entry.action,
                  result |-> entry.result, error |-> entry.error,
                  result_dump_raises |-> entry.result_dump_raises,
                  id |-> Len(@) + 1])]
  /\ EngineFrame

\* agent.run() returns a result, truthy or falsy.
agent_run_return(s, truthy) ==
  /\ EngineRuns(s)
  /\ worker' = [worker EXCEPT ![s].agent_task = IF truthy THEN "returned" ELSE "returned_empty"]
  /\ EngineFrame

\* agent.run() raises.
agent_run_raise(s) ==
  /\ EngineRuns(s)
  /\ worker' = [worker EXCEPT ![s].agent_task = "raised"]
  /\ EngineFrame

\* ------------------------------------------------------------- subscribers
WsFrame ==
  UNCHANGED <<task, steps, active_sessions, sessions, worker, calls,
              returned, callsLeft, limits, attempt, listing, task_manager, background, realtime>>

\* list.remove: the first occurrence goes.
RECURSIVE list_remove(_, _)
list_remove(list, x) ==
  IF list = <<>> THEN <<>>
  ELSE IF Head(list) = x THEN Tail(list)
  ELSE <<Head(list)>> \o list_remove(Tail(list), x)

InList(list, x) == \E i \in 1..Len(list) : list[i] = x

\* What a client gets when its websocket is accepted; seen tells how many rows
\* each writer had written for the task by then.
AcceptedEvent(t) ==
  [type |-> "accepted", task_id |-> t, seen |-> [by \in Writers |-> Len(steps[t][by])]]

\* A connect that sent the task's stored rows of a writer to the new websocket.
connect_replays(ws, t) ==
  /\ ~LoopBlocked
  /\ ws_state[ws] = "new"
  /\ \A i, j \in 1..Len(WsOrder) : i < j /\ WsOrder[j] = ws => ws_state[WsOrder[i]] # "new"
  /\ Cardinality({w \in WebSockets : ws_state[w] # "new"}) < limits.subscribers
  /\ ws_state' = [ws_state EXCEPT ![ws] = "open"]
  /\ active_connections' = [active_connections EXCEPT ![t] = Append(@, ws)]
  /\ received' = [received EXCEPT ![ws] =
       Append(@, AcceptedEvent(t)) \o
         (LET stored == {by \in Writers : steps[t][by] # <<>>}
          IN  IF stored = {} THEN <<>>
              ELSE LET by == CHOOSE by \in stored : TRUE
                   IN  StepEvents(t, by, 0, steps[t][by]))]
  /\ UNCHANGED publishing
  /\ WsFrame

\* websocket_endpoint: a new websocket, accepted and registered by
\* SocketManager.connect.
connect(ws, t) ==
  /\ ~LoopBlocked
  /\ ws_state[ws] = "new"
  /\ \A i, j \in 1..Len(WsOrder) : i < j /\ WsOrder[j] = ws => ws_state[WsOrder[i]] # "new"
  /\ Cardinality({w \in WebSockets : ws_state[w] # "new"}) < limits.subscribers
  /\ ws_state' = [ws_state EXCEPT ![ws] = "open"]
  /\ active_connections' = [active_connections EXCEPT ![t] = Append(@, ws)]
  /\ received' = [received EXCEPT ![ws] = Append(@, AcceptedEvent(t))]
  /\ UNCHANGED publishing
  /\ WsFrame

\* SocketManager.connect with a websocket that is registered already.  What
\* accept() does on an accepted websocket is the websocket's own affair: where it
\* raises, connect ends before line 18 and nothing changes; where it returns,
\* the websocket is appended once more.
connect_again(ws, t, accepts) ==
  /\ ~LoopBlocked
  /\ ws_state[ws] = "open"
  /\ InList(active_connections[t], ws)
  /\ Len(active_connections[t]) < limits.subscribers
  /\ IF accepts
       THEN /\ active_connections' = [active_connections EXCEPT ![t] = Append(@, ws)]
            /\ received' = [received EXCEPT ![ws] = Append(@, AcceptedEvent(t))]
       ELSE UNCHANGED <<active_connections, received>>
  /\ UNCHANGED <<ws_state, publishing>>
  /\ WsFrame

\* The client goes away: from now on a send to the websocket raises.
client_close(ws) ==
  /\ ws_state[ws] = "open"
  /\ ws_state' = [ws_state EXCEPT ![ws] = "closed"]
  /\ UNCHANGED <<active_connections, received, publishing>>
  /\ WsFrame

\* SocketManager.disconnect, from websocket_endpoint on WebSocketDisconnect.
disconnect(ws, t) ==
  /\ ~LoopBlocked
  /\ ws_state[ws] = "closed"
  /\ InList(active_connections[t], ws)
  /\ active_connections' = [active_connections EXCEPT ![t] = list_remove(@, ws)]
  /\ UNCHANGED <<ws_state, received, publishing>>
  /\ WsFrame

\* ------------------------------------------ a publish, one send at a time
\* _send_step_update as the thread p runs it in its own event loop, while the
\* request loop's thread serves websocket_endpoint: the row is committed, then
\* broadcast_to_task copies the task's list and sends to one websocket after the
\* other.  The key of a task is in active_connections exactly when its list here
\* is not empty.
PublishFrame ==
  UNCHANGED <<task, active_sessions, sessions, worker, calls, returned, callsLeft,
              limits, attempt, listing, task_manager, background, realtime, ws_state>>

PublishedTypes == {StepType_THINKING}   \* the step_type of the published rows

Published == "published"

\* The rows of a task in the table, whoever wrote them.
RECURSIVE RowCount(_, _)
RowCount(t, writers) ==
  IF writers = {} THEN 0
  ELSE LET by == CHOOSE by \in writers : TRUE
       IN  Len(steps[t][by]) + RowCount(t, writers \ {by})

\* The step_update of a row with the row's place in the table, which is its
\* place in get_task_steps's order by timestamp.
PersistedStepEvent(t, by, k, row) ==
  [type |-> "step_update", task_id |-> t, step |-> row, at |-> <<by, k>>,
   persisted |-> RowCount(t, Writers) + 1]

send_step_update_commit(p, t, step_type) ==
  /\ publishing[p].pc = "idle"
  /\ Len(steps[t][p]) < limits.publishes
  /\ steps' = send_step_update(steps, t, p, step_type, Published)
  /\ publishing' = [publishing EXCEPT ![p] =
       IF active_connections[t] = <<>>
         THEN IdleFrame
         ELSE [pc |-> "send", task_id |-> t,
               message |-> PersistedStepEvent(t, p, Len(steps[t][p]) + 1,
                                              Step(step_type, Published)),
               connections |-> active_connections[t], i |-> 1]]
  /\ UNCHANGED <<active_connections, received>>
  /\ PublishFrame

\* A _send_step_update that broadcasts the row although its commit raised.
send_step_update_commit_raises_and_sends(p, t, step_type) ==
  /\ publishing[p].pc = "idle"
  /\ Len(steps[t][p]) < limits.publishes
  /\ active_connections[t] # <<>>
  /\ publishing' = [publishing EXCEPT ![p] =
       [pc |-> "send", task_id |-> t,
        message |-> PersistedStepEvent(t, p, Len(steps[t][p]) + 1, Step(step_type, Published)),
        connections |-> active_connections[t], i |-> 1]]
  /\ UNCHANGED <<steps, active_connections, received>>
  /\ PublishFrame

\* _send_step_update, lines 512-521 and 530-531: db.add or db.commit raises (the
\* database is locked, the disk is full); no row is stored, the broadcast of
\* line 524 is not reached, and the handler of line 530 is entered with the
\* exception.
send_step_update_commit_raises(p, t, step_type) ==
  /\ publishing[p].pc = "idle"
  /\ Len(steps[t][p]) < limits.publishes
  /\ publishing' = [publishing EXCEPT ![p] =
       [pc |-> "raised", task_id |-> t,
        message |-> PersistedStepEvent(t, p, Len(steps[t][p]) + 1, Step(step_type, Published)),
        connections |-> <<>>, i |-> 0]]
  /\ UNCHANGED <<steps, active_connections, received>>
  /\ PublishFrame

\* The loop over the copy: the next websocket, or the return after the last.
AfterSend(f) ==
  IF f.i = Len(f.connections) THEN IdleFrame ELSE [f EXCEPT !.pc = "send", !.i = @ + 1]

\* websocket.send_text on an open websocket.
broadcast_to_task_send(p) ==
  LET f == publishing[p] IN
  /\ f.pc = "send"
  /\ ws_state[f.connections[f.i]] = "open"
  /\ received' = [received EXCEPT ![f.connections[f.i]] = Append(@, f.message)]
  /\ publishing' = [publishing EXCEPT ![p] = AfterSend(f)]
  /\ UNCHANGED <<steps, active_connections>>
  /\ PublishFrame

\* websocket.send_text raises on a closed websocket; the handler calls
\* disconnect, whose tests pass or do not.
broadcast_to_task_except(p) ==
  LET f == publishing[p] IN
  /\ f.pc = "send"
  /\ ws_state[f.connections[f.i]] = "closed"
  /\ publishing' = [publishing EXCEPT ![p] =
       IF InList(active_connections[f.task_id], f.connections[f.i])
         THEN [f EXCEPT !.pc = "remove"]
         ELSE AfterSend(f)]
  /\ UNCHANGED <<steps, active_connections, received>>
  /\ PublishFrame

\* disconnect's remove, after its tests passed: list.remove raises ValueError,
\* or the subscript KeyError, when another thread has removed the websocket
\* since the tests, and nothing in broadcast_to_task catches it.
broadcast_to_task_remove(p) ==
  LET f == publishing[p] IN
  /\ f.pc = "remove"
  /\ IF InList(active_connections[f.task_id], f.connections[f.i])
       THEN /\ active_connections' =
                 [active_connections EXCEPT ![f.task_id] = list_remove(@, f.connections[f.i])]
            /\ publishing' = [publishing EXCEPT ![p] = AfterSend(f)]
       ELSE /\ publishing' = [publishing EXCEPT ![p] = [f EXCEPT !.pc = "raised"]]
            /\ UNCHANGED active_connections
  /\ UNCHANGED <<steps, received>>
  /\ PublishFrame

\* _send_step_update's own handler logs what broadcast_to_task raised.
send_step_update_except(p) ==
  /\ publishing[p].pc = "raised"
  /\ publishing[p].message.type = "step_update"
  /\ publishing' = [publishing EXCEPT ![p] = IdleFrame]
  /\ UNCHANGED <<steps, active_connections, received>>
  /\ PublishFrame

\* ------------------------------------------ the services' engine runners
\* BrowserbaseBrowserUseService.execute_agent_task and
\* EnhancedAutomationService.run_automation_task_with_control around agent.run().
\* The message of an exception is a sequence of phrases; Needles tells which of
\* the substrings the handlers look for the lower-cased phrase contains.
ErrorPhrases ==
  {"Browser is closed", "WebSocket disconnected", "Timeout exceeded", "Anthropic API error",
   "element not found"}

Needles(phrase) ==
  CASE phrase = "Browser is closed" -> {"browser is closed"}
    [] phrase = "WebSocket disconnected" -> {"disconnected"}
    [] phrase = "Timeout exceeded" -> {"timeout"}
    [] phrase = "Anthropic API error" -> {"anthropic", "api"}
    [] OTHER -> {}

\* needle in str(e).lower()
Contains(message, needle) == \E i \in 1..Len(message) : needle \in Needles(message[i])

SessionEndedNormally == "Task completed successfully (session ended normally)"

AttemptFrame ==
  UNCHANGED <<task, steps, active_sessions, sessions, worker, calls, returned, callsLeft,
              limits, listing, task_manager, background, realtime, active_connections, ws_state, received,
              publishing>>

\* execute_agent_task, lines 212-249.
execute_agent_task ==
  /\ attempt.service = "browserbase" /\ attempt.pc = "called"
  /\ attempt' =
       IF ~attempt.raised
         THEN [attempt EXCEPT !.pc = "returned", !.success = TRUE, !.text = "str(result)"]
       ELSE IF Contains(attempt.message, "browser is closed")
               \/ Contains(attempt.message, "disconnected")
         THEN [attempt EXCEPT !.pc = "returned", !.success = TRUE, !.text = SessionEndedNormally]
         ELSE [attempt EXCEPT !.pc = "returned", !.success = FALSE,
                              !.text = "Error executing agent task: "]
  /\ AttemptFrame

\* run_automation_task_with_control, lines 215-240: it returns a string or raises.
run_automation_task_with_control ==
  /\ attempt.service = "enhanced" /\ attempt.pc = "called"
  /\ attempt' =
       IF ~attempt.raised
         THEN [attempt EXCEPT !.pc = "returned", !.success = TRUE, !.text = "str(result)"]
       ELSE IF Contains(attempt.message, "browser is closed")
               \/ Contains(attempt.message, "disconnected")
         THEN [attempt EXCEPT !.pc = "returned", !.success = TRUE, !.text = SessionEndedNormally]
       ELSE IF Contains(attempt.message, "timeout")
         THEN [attempt EXCEPT !.pc = "raised", !.success = FALSE, !.text = "Task timed out: "]
       ELSE IF Contains(attempt.message, "anthropic") \/ Contains(attempt.message, "api")
         THEN [attempt EXCEPT !.pc = "raised", !.success = FALSE, !.text = "LLM API error: "]
         ELSE [attempt EXCEPT !.pc = "raised", !.success = FALSE, !.text = "Automation error: "]
  /\ AttemptFrame

\* _update_task_status as the thread p runs it, lines 537-553: the row is
\* written and committed, then send_status_change broadcasts, send by send.
\* written counts the terminal writes, as completed_at does.
update_task_status_commit(p, t, status, error_message) ==
  /\ publishing[p].pc = "idle"
  /\ task[t].completed_at < limits.publishes
  /\ task' = update_task_status(task, t, status, error_message, utcnow(task[t]))
  /\ publishing' = [publishing EXCEPT ![p] =
       IF active_connections[t] = <<>> \/ task[t] = NoRow
         THEN IdleFrame
         ELSE [pc |-> "send", task_id |-> t,
               message |-> StatusEvent(t, status, error_message),
               connections |-> active_connections[t], i |-> 1]]
  /\ UNCHANGED <<steps, active_sessions, sessions, worker, calls, returned, callsLeft,
                 limits, attempt, listing, task_manager, background, realtime, active_connections, received, ws_state>>

\* _update_task_status's own handler, lines 556-557, logs what the broadcast raised.
update_task_status_except(p) ==
  /\ publishing[p].pc = "raised"
  /\ publishing[p].message.type = "status_change"
  /\ publishing' = [publishing EXCEPT ![p] = IdleFrame]
  /\ UNCHANGED <<task, steps, active_connections, received>>
  /\ PublishFrame

\* ------------------------------------------------------------- TaskService
\* A method of TaskService returns False at its own check: nothing but the
\* return happens.
task_service_returns_false(op, t) ==
  /\ returned' = [op |-> op, task_id |-> t, ret |-> FALSE]
  /\ UNCHANGED <<task, steps, active_sessions, sessions, worker, calls, limits, attempt, listing, task_manager, background, realtime,
                 active_connections, received, ws_state, publishing>>

\* A pause_task that asks the manager whatever the row says.
pause_task_unchecked(t) == pause_agent_session(t)

\* TaskService.pause_task, lines 73-97: the row is read; without a row, or with
\* a status other than running, False; else what pause_agent_session returns.
pause_task(t) ==
  IF task[t] = NoRow \/ task[t].status # RUNNING
    THEN CanInvoke /\ callsLeft' = callsLeft - 1 /\ task_service_returns_false("pause_task", t)
    ELSE pause_agent_session(t)

\* TaskService.resume_task, lines 99-123.
resume_task(t) ==
  IF task[t] = NoRow \/ task[t].status # PAUSED
    THEN CanInvoke /\ callsLeft' = callsLeft - 1 /\ task_service_returns_false("resume_task", t)
    ELSE resume_agent_session(t)

\* TaskService.stop_task, lines 125-149.
stop_task(t) ==
  IF task[t] = NoRow \/ task[t].status \in {COMPLETED, FAILED}
    THEN CanInvoke /\ callsLeft' = callsLeft - 1 /\ task_service_returns_false("stop_task", t)
    ELSE stop_agent_session(t)

\* TaskService.delete_task, lines 151-175, a plain function called on the
\* request loop: the row goes, and its TaskStep rows with it (the cascade of
\* models.py, line 20), unless the task is running or paused.
delete_task(t) ==
  /\ CanInvoke
  /\ callsLeft' = callsLeft - 1
  /\ IF task[t] = NoRow \/ task[t].status \in {RUNNING, PAUSED}
       THEN task_service_returns_false("delete_task", t)
       ELSE /\ task' = [task EXCEPT ![t] = NoRow]
            /\ steps' = [steps EXCEPT ![t] = [by \in Writers |-> <<>>]]
            /\ returned' = [op |-> "delete_task", task_id |-> t, ret |-> TRUE]
            /\ UNCHANGED <<active_sessions, sessions, worker, calls, limits, attempt, listing, task_manager, background, realtime,
                           active_connections, received, ws_state, publishing>>

\* ------------------------------------------------------------- TaskManager
\* services/task_manager.py.  Every method holds the asyncio.Lock for its whole
\* body, which has no await, and all run on one event loop: a method is one step.
\* The statuses of its own TaskStatus, lines 14-22, beside running, completed
\* and failed.
CREATED == "created"
INITIALIZING == "initializing"
CONNECTING == "connecting"
CANCELLED == "cancelled"
STOPPED == "stopped"

\* The keyword arguments a caller passes, as far as the record's fields go.
NoKwargs == [f \in {} |-> None]

Kwargs(f, v) == [g \in {f} |-> v]

InActive(tm, t) == tm.active_tasks[t] # NoRecord

InCompleted(tm, t) == tm.completed_tasks[t] # NoRecord

\* update_task_status, lines 62-72: the status, then each keyword argument.
task_status_updated(tm, t, status, kwargs) ==
  IF InActive(tm, t)
    THEN [tm EXCEPT !.active_tasks[t] =
           [f \in DOMAIN @ |->
              IF f \in DOMAIN kwargs THEN kwargs[f]
              ELSE IF f = "status" THEN status ELSE @[f]]]
    ELSE tm

\* complete_task, lines 74-93: the record is popped, written and put in
\* completed_tasks; a falsy result (None, the empty string) makes it failed.
task_completed(tm, t, result, error) ==
  IF InActive(tm, t)
    THEN [tm EXCEPT !.active_tasks[t] = NoRecord,
                    !.completed_tasks[t] =
                      [status |-> IF result \notin {None, ""} THEN COMPLETED ELSE FAILED,
                       result |-> result, error |-> error, session |-> None,
                       cancel_event |-> None]]
    ELSE tm

\* cancel_task, lines 95-103, and stop_task, lines 105-113.
task_cancelled(tm, t) ==
  IF InActive(tm, t)
    THEN [tm EXCEPT !.active_tasks[t].cancel_event = "set",
                    !.active_tasks[t].status = CANCELLED]
    ELSE tm

\* A stop_task that looks for the record in completed_tasks too.
task_stopped_wherever(tm, t) ==
  IF InActive(tm, t)
    THEN [tm EXCEPT !.active_tasks[t].cancel_event = "set",
                    !.active_tasks[t].status = STOPPED]
  ELSE IF InCompleted(tm, t)
    THEN [tm EXCEPT !.completed_tasks[t].status = STOPPED]
    ELSE tm

task_stopped(tm, t) ==
  IF InActive(tm, t)
    THEN [tm EXCEPT !.active_tasks[t].cancel_event = "set",
                    !.active_tasks[t].status = STOPPED]
    ELSE tm

\* get_task, lines 53-60: the record of the id, active first.
get_task(tm, t) ==
  IF InActive(tm, t) THEN tm.active_tasks[t] ELSE tm.completed_tasks[t]

\* create_task, lines 32-51: the record of a new id (uuid4: an id no record had).
task_created(tm, t) ==
  [tm EXCEPT !.active_tasks[t] =
     [status |-> CREATED, result |-> None, error |-> None, session |-> None,
      cancel_event |-> "clear"]]

\* An id no create_task has returned yet, the lowest first.
NewId(t) ==
  /\ background[t].pc = "none"
  /\ ~InActive(task_manager, t) /\ ~InCompleted(task_manager, t)
  /\ \A u \in TaskIds : u < t => ~(background[u].pc = "none" /\ ~InActive(task_manager, u)
                                     /\ ~InCompleted(task_manager, u))

TaskManagerFrame ==
  UNCHANGED <<task, steps, active_sessions, sessions, worker, calls, limits, attempt,
              listing, active_connections, ws_state, received, publishing, realtime>>

\* The methods called one by one by whoever holds the TaskManager.  They
\* return nothing: returned tells which was called last, with ret FALSE.
TaskManager_create_task(t) ==
  /\ callsLeft > 0 /\ callsLeft' = callsLeft - 1
  /\ NewId(t)
  /\ task_manager' = task_created(task_manager, t)
  /\ background' = [background EXCEPT ![t].pc = "direct"]
  /\ returned' = [op |-> "TaskManager.create_task", task_id |-> t, ret |-> FALSE]
  /\ TaskManagerFrame

TaskManager_update_task_status(t, status, kwargs) ==
  /\ callsLeft > 0 /\ callsLeft' = callsLeft - 1
  /\ task_manager' = task_status_updated(task_manager, t, status, kwargs)
  /\ returned' = [op |-> "TaskManager.update_task_status", task_id |-> t, ret |-> FALSE]
  /\ UNCHANGED background
  /\ TaskManagerFrame

TaskManager_complete_task(t, result, error) ==
  /\ callsLeft > 0 /\ callsLeft' = callsLeft - 1
  /\ task_manager' = task_completed(task_manager, t, result, error)
  /\ returned' = [op |-> "TaskManager.complete_task", task_id |-> t, ret |-> FALSE]
  /\ UNCHANGED background
  /\ TaskManagerFrame

TaskManager_cancel_task(t) ==
  /\ callsLeft > 0 /\ callsLeft' = callsLeft - 1
  /\ task_manager' = task_cancelled(task_manager, t)
  /\ returned' = [op |-> "TaskManager.cancel_task", task_id |-> t, ret |-> FALSE]
  /\ UNCHANGED background
  /\ TaskManagerFrame

TaskManager_stop_task(t) ==
  /\ callsLeft > 0 /\ callsLeft' = callsLeft - 1
  /\ task_manager' = task_stopped(task_manager, t)
  /\ returned' = [op |-> "TaskManager.stop_task", task_id |-> t, ret |-> FALSE]
  /\ UNCHANGED background
  /\ TaskManagerFrame

\* ----------------------------------------------- EnhancedAutomationService
\* services/enhanced_automation_service.py with the TaskManager.  An await of a
\* TaskManager method does not suspend the caller (the lock is free and the
\* body has no await), so a step runs from one real suspension to the next.
EnhancedFrame ==
  UNCHANGED <<task, steps, active_sessions, sessions, worker, calls, returned, callsLeft,
              limits, attempt, listing, active_connections, ws_state, received, publishing, realtime>>

\* start_task, lines 307-328: the record is created and the background run scheduled.
start_task(t) ==
  /\ NewId(t)
  /\ task_manager' = task_created(task_manager, t)
  /\ background' = [background EXCEPT ![t].pc = "scheduled"]
  /\ EnhancedFrame

\* execute_task_background, lines 255-264: initializing, then the BrowserBase
\* session is awaited.
execute_task_background(t) ==
  /\ background[t].pc = "scheduled"
  /\ task_manager' = task_status_updated(task_manager, t, INITIALIZING, NoKwargs)
  /\ background' = [background EXCEPT ![t].pc = "create_browserbase_session"]
  /\ EnhancedFrame

\* execute_task_background, lines 264-279: connecting, then ManagedBrowserSession
\* is entered; or create_browserbase_session raised and lines 302-304 complete the
\* task with the error.
execute_task_background_connecting(t, ok) ==
  /\ background[t].pc = "create_browserbase_session"
  /\ IF ok
       THEN /\ task_manager' = task_status_updated(task_manager, t, CONNECTING, NoKwargs)
            /\ background' = [background EXCEPT ![t].pc = "aenter"]
       ELSE /\ task_manager' = task_completed(task_manager, t, None, "str(e)")
            /\ background' = [background EXCEPT ![t].pc = "done"]
  /\ EnhancedFrame

\* execute_task_background, lines 279-285: the session is stored in the record,
\* then the run sleeps three seconds; or entering raised.
execute_task_background_session(t, ok) ==
  /\ background[t].pc = "aenter"
  /\ IF ok
       THEN /\ task_manager' = task_status_updated(task_manager, t, CONNECTING,
                                                    Kwargs("session", "browser_session"))
            /\ background' = [background EXCEPT ![t].pc = "sleep(3)"]
       ELSE /\ task_manager' = task_completed(task_manager, t, None, "str(e)")
            /\ background' = [background EXCEPT ![t].pc = "done"]
  /\ EnhancedFrame

\* run_automation_task_with_control, lines 181-212: the LLM client and the agent
\* are made (either may raise, before the try), running is written three
\* times, then the run sleeps two seconds.
run_automation_task_with_control_start(t, ok) ==
  /\ background[t].pc = "sleep(3)"
  /\ IF ok
       THEN /\ task_manager' = task_status_updated(task_manager, t, RUNNING, NoKwargs)
            /\ background' = [background EXCEPT ![t].pc = "sleep(2)"]
       ELSE /\ UNCHANGED task_manager
            /\ background' = [background EXCEPT ![t].pc = "aexit"]
  /\ EnhancedFrame

\* run_automation_task_with_control, lines 213-215: running, then agent.run().
run_automation_task_with_control_run(t) ==
  /\ background[t].pc = "sleep(2)"
  /\ task_manager' = task_status_updated(task_manager, t, RUNNING, NoKwargs)
  /\ background' = [background EXCEPT ![t].pc = "agent.run"]
  /\ EnhancedFrame

\* run_automation_task_with_control, lines 215-244, and execute_task_background,
\* lines 298-300: agent.run() returns, or raises what the handler takes for the
\* normal end of the session ("ended"), and the finally writes running and
\* complete_task records the string returned; or it raises anything else, the
\* finally writes running and the exception leaves through ManagedBrowserSession.
run_automation_task_with_control_end(t, outcome) ==
  /\ background[t].pc = "agent.run"
  /\ LET tm == task_status_updated(task_manager, t, RUNNING, NoKwargs) IN
     CASE outcome = "result" ->
            /\ task_manager' = task_completed(tm, t, "str(result)", None)
            /\ background' = [background EXCEPT ![t].pc = "done"]
       [] outcome = "ended" ->
            /\ task_manager' = task_completed(tm, t, SessionEndedNormally, None)
            /\ background' = [background EXCEPT ![t].pc = "done"]
       [] OTHER ->
            /\ task_manager' = tm
            /\ background' = [background EXCEPT ![t].pc = "aexit"]
  /\ EnhancedFrame

\* execute_task_background, lines 302-305: the exception is out of the session's
\* __aexit__, and the task is completed with the error.
execute_task_background_except(t) ==
  /\ background[t].pc = "aexit"
  /\ task_manager' = task_completed(task_manager, t, None, "str(e)")
  /\ background' = [background EXCEPT ![t].pc = "done"]
  /\ EnhancedFrame

\* EnhancedAutomationService.stop_task, lines 330-348: the copy get_task returns
\* is tested; TaskManager.stop_task is called; the session of the copy, when it
\* has one, is stopped, which is awaited.
EnhancedAutomationService_stop_task(t) ==
  /\ background[t].stop = "none"
  /\ LET copy == get_task(task_manager, t) IN
     IF copy = NoRecord \/ copy.status \notin {RUNNING, CONNECTING, INITIALIZING}
       THEN /\ background' = [background EXCEPT ![t].stop = "returned False"]
            /\ UNCHANGED task_manager
       ELSE /\ task_manager' = task_stopped(task_manager, t)
            /\ background' = [background EXCEPT ![t].stop =
                 IF copy.session # None THEN "session.stop" ELSE "returned True"]
  /\ EnhancedFrame

\* EnhancedAutomationService.stop_task, lines 345-351: session.stop() is over,
\* whether it raised or not, and True is returned.
EnhancedAutomationService_stop_task_return(t) ==
  /\ background[t].stop = "session.stop"
  /\ background' = [background EXCEPT ![t].stop = "returned True"]
  /\ UNCHANGED task_manager
  /\ EnhancedFrame

\* ------------------------------------------- BrowserAgentRealtimeManager
\* api/endpoints/browser_agent_realtime.py.  active_connections is one list of
\* the module, for every session; a websocket's session_id is the one of its
\* URL.  Every send_text is awaited, and other coroutines run meanwhile.
RealtimeFrame ==
  UNCHANGED <<task, steps, active_sessions, sessions, worker, calls, returned, callsLeft,
              limits, attempt, listing, task_manager, background, active_connections,
              ws_state, received, publishing>>

\* lines 59-60: the connections that failed are removed one by one; remove
\* raises ValueError for one that is no longer in the list.
RECURSIVE remove_disconnected(_, _)
remove_disconnected(list, disconnected) ==
  IF disconnected = <<>> THEN [active_connections |-> list, raised |-> FALSE]
  ELSE IF ~InList(list, Head(disconnected))
         THEN [active_connections |-> list, raised |-> TRUE]
         ELSE remove_disconnected(list_remove(list, Head(disconnected)), Tail(disconnected))

\* connect_websocket, lines 30-40, called at line 224 with the URL's session_id.
connect_websocket(ws, session_id) ==
  /\ realtime.websocket[ws].state = "new"
  /\ realtime' = [realtime EXCEPT
        !.active_connections = Append(@, ws),
        !.websocket[ws] = [state |-> "open", session_id |-> session_id,
                           received |-> {<<"connection", session_id>>}]]
  /\ RealtimeFrame

\* The client goes away: sends to the websocket raise from now on, and
\* receive_text, line 229, will raise in websocket_endpoint.
websocket_closes(ws) ==
  /\ realtime.websocket[ws].state = "open"
  /\ realtime' = [realtime EXCEPT !.websocket[ws].state = "closed"]
  /\ RealtimeFrame

\* websocket_endpoint, lines 239-242, and disconnect_websocket, lines 42-45.
disconnect_websocket(ws) ==
  /\ realtime.websocket[ws].state = "closed"
  /\ realtime' = [realtime EXCEPT
        !.websocket[ws].state = "gone",
        !.active_connections = IF InList(@, ws) THEN list_remove(@, ws) ELSE @]
  /\ RealtimeFrame

\* The broadcast_update that begins: lines 49-50.
Broadcast(session_id, type) ==
  [pc |-> "broadcast_update", session_id |-> session_id, type |-> type, i |-> 0,
   disconnected |-> <<>>]

\* execute_task_with_realtime, lines 70-83: task_start is broadcast.
execute_task_with_realtime(session_id) ==
  /\ realtime.run.pc = "none"
  /\ realtime' = [realtime EXCEPT !.run = Broadcast(session_id, "task_start")]
  /\ RealtimeFrame

\* broadcast_update, lines 52-56, one turn of the loop over active_connections:
\* the list iterator takes the item at its index, whatever the list is by now.
broadcast_update_send ==
  LET run == realtime.run IN
  /\ run.pc = "broadcast_update"
  /\ run.i < Len(realtime.active_connections)
  /\ LET connection == realtime.active_connections[run.i + 1] IN
     IF realtime.websocket[connection].state = "open"
       THEN realtime' = [realtime EXCEPT
              !.websocket[connection].received = @ \cup {<<run.type, run.session_id>>},
              !.run.i = @ + 1]
       ELSE realtime' = [realtime EXCEPT
              !.run.disconnected = Append(@, connection),
              !.run.i = @ + 1]
  /\ RealtimeFrame

\* What execute_task_with_realtime and stream_logs do after a broadcast_update
\* of the type, which returned or raised: lines 78-85, 118-143, 157-178, 208-216.
after_broadcast(run, raised) ==
  CASE run.type = "task_start" ->
         IF raised THEN [NoRun EXCEPT !.pc = "raised", !.session_id = run.session_id]
         ELSE [NoRun EXCEPT !.pc = "service.execute_task", !.session_id = run.session_id]
    [] run.type = "log_update" ->
         IF raised THEN Broadcast(run.session_id, "log_error")
         ELSE Broadcast(run.session_id, "task_complete")
    [] run.type = "log_error" ->
         IF raised THEN Broadcast(run.session_id, "task_error")
         ELSE Broadcast(run.session_id, "task_complete")
    [] run.type = "task_complete" ->
         IF raised THEN Broadcast(run.session_id, "task_error")
         ELSE [NoRun EXCEPT !.pc = "returned", !.session_id = run.session_id]
    [] OTHER ->
         IF raised THEN [NoRun EXCEPT !.pc = "raised", !.session_id = run.session_id]
         ELSE [NoRun EXCEPT !.pc = "returned", !.session_id = run.session_id]

\* broadcast_update, lines 52 and 58-60: the loop is over, the connections that
\* failed are removed, and the caller goes on.
broadcast_update_remove ==
  LET run == realtime.run
      removed == remove_disconnected(realtime.active_connections, run.disconnected) IN
  /\ run.pc = "broadcast_update"
  /\ run.i >= Len(realtime.active_connections)
  /\ realtime' = [realtime EXCEPT
        !.active_connections = removed.active_connections,
        !.raised = @ \/ removed.raised,
        !.run = after_broadcast(run, removed.raised)]
  /\ RealtimeFrame

\* execute_task_with_realtime, lines 105-130: service.execute_task is over.  It
\* returned and stream_logs broadcasts the log ("log_update"), or found no
\* conversation file ("no_file"), or failed to read it ("log_error"); or the
\* task raised.
execute_with_logging(outcome) ==
  LET run == realtime.run IN
  /\ run.pc = "service.execute_task"
  /\ realtime' = [realtime EXCEPT !.run =
        CASE outcome = "log_update" -> Broadcast(run.session_id, "log_update")
          [] outcome = "log_error" -> Broadcast(run.session_id, "log_error")
          [] outcome = "no_file" -> Broadcast(run.session_id, "task_complete")
          [] OTHER -> Broadcast(run.session_id, "task_error")]
  /\ RealtimeFrame

\* ------------------------------------------------------- the reads of the map
\* The task ids the map holds, and the status it shows for each.
Keys == {t \in TaskIds : active_sessions[t] # 0}

Table ==
  [t \in TaskIds |-> IF t \in Keys THEN sessions[active_sessions[t]].status ELSE Absent]

ReadFrame ==
  UNCHANGED <<task, steps, active_sessions, sessions, worker, calls, returned, callsLeft,
              limits, attempt, task_manager, background, realtime, active_connections,
              ws_state, received, publishing>>

\* get_session_status, lines 494-497: dict.get, then the Session's status, or None.
get_session_status(t) ==
  /\ ~LoopBlocked
  /\ listing' = [NoListing EXCEPT !.op = "status", !.pc = "done", !.visited = {t},
                                  !.result[t] = IF t \in Keys THEN Table[t] ELSE None]
  /\ ReadFrame

\* get_active_sessions, line 501: the comprehension makes the iterator of
\* active_sessions.items(), which notes the size of the dict.
get_active_sessions ==
  /\ ~LoopBlocked
  /\ listing' = [NoListing EXCEPT !.op = "list", !.pc = "iter", !.used = Cardinality(Keys)]
  /\ ReadFrame

\* get_active_sessions, line 501, one turn of the comprehension.  The iterator
\* raises RuntimeError (dictionary changed size during iteration) when the size
\* is no longer the one it noted; else it yields the next item in insertion order,
\* which is the order in which the Sessions were made, or ends the comprehension.
\* Nothing in the method catches the exception.  Worker threads run between turns.
get_active_sessions_next ==
  /\ listing.pc = "iter"
  /\ listing' =
       IF Cardinality(Keys) # listing.used
         THEN [listing EXCEPT !.pc = "done", !.raised = TRUE]
       ELSE IF Keys \ listing.visited = {}
         THEN [listing EXCEPT !.pc = "done"]
         ELSE LET k == CHOOSE k \in Keys \ listing.visited :
                         \A j \in Keys \ listing.visited :
                           active_sessions[k] <= active_sessions[j] IN
              [listing EXCEPT !.visited = @ \cup {k}, !.result[k] = Table[k]]
  /\ ReadFrame

\* ------------------------------------------------------------ specification
\* The manager, its workers and their engines.
Next ==
  \/ \E t \in Tasks : start_agent_session(t)
  \/ \E c \in Slots : start_agent_session_thread(c)
  \/ \E c \in Slots : start_agent_session_insert(c)
  \/ \E t \in Tasks : pause_agent_session(t)
  \/ \E c \in Slots : pause_agent_session_step(c)
  \/ \E t \in Tasks : resume_agent_session(t)
  \/ \E c \in Slots : resume_agent_session_step(c)
  \/ \E t \in Tasks : stop_agent_session(t)
  \/ \E c \in Slots : stop_agent_session_join(c)
  \/ \E c \in Slots : stop_agent_session_step(c)
  \/ \E c \in Slots : stop_agent_session_cleanup(c)
  \/ \E s \in SessionIds, ok \in BOOLEAN : run_agent_thread(s, ok)
  \/ \E s \in SessionIds : run_agent_with_monitoring(s)
  \/ \E s \in SessionIds : run_agent_with_monitoring_pause(s)
  \/ \E s \in SessionIds : execute_agent_async(s)
  \/ \E s \in SessionIds, closed \in BOOLEAN : run_agent_thread_finally(s, closed)
  \/ \E s \in SessionIds, truthy \in BOOLEAN : agent_run_return(s, truthy)
  \/ \E s \in SessionIds : agent_run_raise(s)

Spec == Init /\ [][Next]_vars

\* The same with websocket clients coming and going, for one session per run.
InitBus ==
  /\ task = [t \in TaskIds |->
       [status |-> PENDING, error_message |-> None, completed_at |-> 0, result |-> None]]
  /\ steps = [t \in TaskIds |-> [by \in Writers |-> <<>>]]
  /\ active_sessions = [t \in TaskIds |-> 0]
  /\ sessions = [s \in SessionIds |-> NoSession]
  /\ worker = [s \in SessionIds |-> NoWorker]
  /\ calls = [c \in Slots |-> IdleCall]
  /\ returned = NoReturn
  /\ callsLeft = MaxCalls
  /\ limits = [sessions |-> 1, polls |-> MaxPolls, history |-> 0,
               inflight |-> Cardinality(Slots), subscribers |-> 1, publishes |-> 0]
  /\ active_connections = [t \in TaskIds |-> <<>>]
  /\ ws_state = [w \in WebSockets |-> "new"]
  /\ received = [w \in WebSockets |-> <<>>]
  /\ publishing = [p \in Writers |-> IdleFrame]
  /\ attempt = NoAttempt
  /\ listing = NoListing
  /\ task_manager = NoTasks
  /\ background = [t \in TaskIds |-> NoBackground]
  /\ realtime = NoRealtime

NextBus ==
  \/ Next
  \/ \E ws \in WebSockets, t \in Tasks : connect(ws, t)
  \/ \E ws \in WebSockets : client_close(ws)
  \/ \E ws \in WebSockets, t \in Tasks : disconnect(ws, t)

SpecBus == InitBus /\ [][NextBus]_vars

\* The request event loop runs a coroutine that is ready: Thread.join returns when
\* the thread ends or its 10 s are over, and a broadcast ends.  Nothing is assumed
\* of the worker threads and their engines.
FairSpec ==
  /\ Spec
  /\ \A c \in Slots :
       /\ WF_vars(start_agent_session_insert(c))
       /\ WF_vars(stop_agent_session_join(c))
       /\ WF_vars(stop_agent_session_step(c))
       /\ WF_vars(stop_agent_session_cleanup(c))

\* A caller that awaits each coroutine of the manager before it invokes the next,
\* for one session per run.
InitSeq ==
  /\ task = [t \in TaskIds |->
       [status |-> PENDING, error_message |-> None, completed_at |-> 0, result |-> None]]
  /\ steps = [t \in TaskIds |-> [by \in Writers |-> <<>>]]
  /\ active_sessions = [t \in TaskIds |-> 0]
  /\ sessions = [s \in SessionIds |-> NoSession]
  /\ worker = [s \in SessionIds |-> NoWorker]
  /\ calls = [c \in Slots |-> IdleCall]
  /\ returned = NoReturn
  /\ callsLeft = MaxCalls
  /\ limits = [sessions |-> 1, polls |-> MaxPolls, history |-> 0, inflight |-> 1, subscribers |-> 1, publishes |-> 0]
  /\ active_connections = [t \in TaskIds |-> <<>>]
  /\ ws_state = [w \in WebSockets |-> "new"]
  /\ received = [w \in WebSockets |-> <<>>]
  /\ publishing = [p \in Writers |-> IdleFrame]
  /\ attempt = NoAttempt
  /\ listing = NoListing
  /\ task_manager = NoTasks
  /\ background = [t \in TaskIds |-> NoBackground]
  /\ realtime = NoRealtime

SpecSeq == InitSeq /\ [][Next]_vars

\* A runaway engine: one start, and an engine run that may outlast the step cap
\* while it keeps appending entries of one shape.
RunawayEntry ==
  [current_state |-> FALSE, action |-> FALSE, result |-> FALSE, error |-> TRUE,
   result_dump_raises |-> FALSE]

InitCap ==
  /\ task = [t \in TaskIds |->
       [status |-> PENDING, error_message |-> None, completed_at |-> 0, result |-> None]]
  /\ steps = [t \in TaskIds |-> [by \in Writers |-> <<>>]]
  /\ active_sessions = [t \in TaskIds |-> 0]
  /\ sessions = [s \in SessionIds |-> NoSession]
  /\ worker = [s \in SessionIds |-> NoWorker]
  /\ calls = [c \in Slots |-> IdleCall]
  /\ returned = NoReturn
  /\ callsLeft = 1
  /\ limits = [sessions |-> 1, polls |-> max_steps + 1, history |-> max_steps + 1,
               inflight |-> 1, subscribers |-> 1, publishes |-> 0]
  /\ active_connections = [t \in TaskIds |-> <<>>]
  /\ ws_state = [w \in WebSockets |-> "new"]
  /\ received = [w \in WebSockets |-> <<>>]
  /\ publishing = [p \in Writers |-> IdleFrame]
  /\ attempt = NoAttempt
  /\ listing = NoListing
  /\ task_manager = NoTasks
  /\ background = [t \in TaskIds |-> NoBackground]
  /\ realtime = NoRealtime

NextCap ==
  \/ \E t \in Tasks : start_agent_session(t)
  \/ \E c \in Slots : start_agent_session_thread(c)
  \/ \E c \in Slots : start_agent_session_insert(c)
  \/ \E s \in SessionIds, ok \in BOOLEAN : run_agent_thread(s, ok)
  \/ \E s \in SessionIds : run_agent_with_monitoring(s)
  \/ \E s \in SessionIds : execute_agent_async(s)
  \/ \E s \in SessionIds, closed \in BOOLEAN : run_agent_thread_finally(s, closed)
  \/ \E s \in SessionIds : agent_history_append(s, RunawayEntry)
  \/ \E s \in SessionIds, truthy \in BOOLEAN : agent_run_return(s, truthy)
  \/ \E s \in SessionIds : agent_run_raise(s)

SpecCap == InitCap /\ [][NextCap]_vars

\* The monitor at work: one session, calls made one after the other, and an engine
\* that appends history entries of every shape while it runs.
InitMonitor ==
  /\ task = [t \in TaskIds |->
       [status |-> PENDING, error_message |-> None, completed_at |-> 0, result |-> None]]
  /\ steps = [t \in TaskIds |-> [by \in Writers |-> <<>>]]
  /\ active_sessions = [t \in TaskIds |-> 0]
  /\ sessions = [s \in SessionIds |-> NoSession]
  /\ worker = [s \in SessionIds |-> NoWorker]
  /\ calls = [c \in Slots |-> IdleCall]
  /\ returned = NoReturn
  /\ callsLeft = MaxCalls
  /\ limits = [sessions |-> 1, polls |-> MaxPolls, history |-> MaxHistory, inflight |-> 1, subscribers |-> 1, publishes |-> 0]
  /\ active_connections = [t \in TaskIds |-> <<>>]
  /\ ws_state = [w \in WebSockets |-> "new"]
  /\ received = [w \in WebSockets |-> <<>>]
  /\ publishing = [p \in Writers |-> IdleFrame]
  /\ attempt = NoAttempt
  /\ listing = NoListing
  /\ task_manager = NoTasks
  /\ background = [t \in TaskIds |-> NoBackground]
  /\ realtime = NoRealtime

NextMonitor ==
  \/ Next
  \/ \E s \in SessionIds, entry \in EntryKinds : agent_history_append(s, entry)

SpecMonitor == InitMonitor /\ [][NextMonitor]_vars

\* The worker's event loop runs the monitor when its sleep is over: the sleeps of
\* lines 280 and 309 end.  Nothing is assumed of the engine or of the callers.
FairMonitor ==
  /\ SpecMonitor
  /\ \A s \in SessionIds :
       /\ WF_vars(run_agent_with_monitoring(s))
       /\ WF_vars(run_agent_with_monitoring_pause(s))

\* Publishes of the worker threads' _send_step_update, send by send, while
\* websockets connect, close and are disconnected by websocket_endpoint.
InitPublish ==
  /\ task = [t \in TaskIds |->
       [status |-> RUNNING, error_message |-> None, completed_at |-> 0, result |-> None]]
  /\ steps = [t \in TaskIds |-> [by \in Writers |-> <<>>]]
  /\ active_sessions = [t \in TaskIds |-> 0]
  /\ sessions = [s \in SessionIds |-> NoSession]
  /\ worker = [s \in SessionIds |-> NoWorker]
  /\ calls = [c \in Slots |-> IdleCall]
  /\ returned = NoReturn
  /\ callsLeft = 0
  /\ limits = [sessions |-> 0, polls |-> 0, history |-> 0, inflight |-> 0,
               subscribers |-> Len(WsOrder), publishes |-> MaxPublishes]
  /\ active_connections = [t \in TaskIds |-> <<>>]
  /\ ws_state = [w \in WebSockets |-> "new"]
  /\ received = [w \in WebSockets |-> <<>>]
  /\ publishing = [p \in Writers |-> IdleFrame]
  /\ attempt = NoAttempt
  /\ listing = NoListing
  /\ task_manager = NoTasks
  /\ background = [t \in TaskIds |-> NoBackground]
  /\ realtime = NoRealtime

NextPublish ==
  \/ \E p \in SessionIds, t \in Tasks, step_type \in PublishedTypes :
       send_step_update_commit(p, t, step_type)
  \/ \E p \in SessionIds : broadcast_to_task_send(p)
  \/ \E p \in SessionIds : broadcast_to_task_except(p)
  \/ \E p \in SessionIds : broadcast_to_task_remove(p)
  \/ \E p \in SessionIds : send_step_update_except(p)
  \/ \E ws \in WebSockets, t \in Tasks : connect(ws, t)
  \/ \E ws \in WebSockets : client_close(ws)
  \/ \E ws \in WebSockets, t \in Tasks : disconnect(ws, t)

SpecPublish == InitPublish /\ [][NextPublish]_vars

\* The same, with a store whose commit may raise.
NextPersist ==
  \/ NextPublish
  \/ \E p \in SessionIds, t \in Tasks, step_type \in PublishedTypes :
       send_step_update_commit_raises(p, t, step_type)

SpecPersist == InitPublish /\ [][NextPersist]_vars

\* One worker thread's publishes, with callers of SocketManager.connect that
\* pass a websocket a second time.
Publisher == CHOOSE p \in SessionIds : \A q \in SessionIds : p <= q

NextReconnect ==
  \/ \E t \in Tasks, step_type \in PublishedTypes :
       send_step_update_commit(Publisher, t, step_type)
  \/ broadcast_to_task_send(Publisher)
  \/ broadcast_to_task_except(Publisher)
  \/ broadcast_to_task_remove(Publisher)
  \/ send_step_update_except(Publisher)
  \/ \E ws \in WebSockets, t \in Tasks : connect(ws, t)
  \/ \E ws \in WebSockets, t \in Tasks, accepts \in BOOLEAN : connect_again(ws, t, accepts)
  \/ \E ws \in WebSockets : client_close(ws)
  \/ \E ws \in WebSockets, t \in Tasks : disconnect(ws, t)

SpecReconnect == InitPublish /\ [][NextReconnect]_vars

\* Tasks created by TaskService.create_task, the only caller of
\* start_agent_session, with subscribers of the task id.
NextService ==
  \/ \E t \in Tasks : create_task(t)
  \/ \E c \in Slots : start_agent_session_thread(c)
  \/ \E c \in Slots : start_agent_session_insert(c)
  \/ \E c \in Slots : start_agent_session_except(c)
  \/ \E c \in Slots : create_task_not_started(c)
  \/ \E s \in SessionIds, ok \in BOOLEAN : run_agent_thread(s, ok)
  \/ \E s \in SessionIds : run_agent_with_monitoring(s)
  \/ \E s \in SessionIds : execute_agent_async(s)
  \/ \E s \in SessionIds, closed \in BOOLEAN : run_agent_thread_finally(s, closed)
  \/ \E s \in SessionIds, truthy \in BOOLEAN : agent_run_return(s, truthy)
  \/ \E s \in SessionIds : agent_run_raise(s)
  \/ \E ws \in WebSockets, t \in Tasks : connect(ws, t)
  \/ \E ws \in WebSockets : client_close(ws)
  \/ \E ws \in WebSockets, t \in Tasks : disconnect(ws, t)

SpecService == InitBus /\ [][NextService]_vars

\* Two tasks, each started, paused, resumed and stopped by a caller that awaits
\* each coroutine of the manager before it invokes the next.
InitTwo ==
  /\ task = [t \in TaskIds |->
       [status |-> PENDING, error_message |-> None, completed_at |-> 0, result |-> None]]
  /\ steps = [t \in TaskIds |-> [by \in Writers |-> <<>>]]
  /\ active_sessions = [t \in TaskIds |-> 0]
  /\ sessions = [s \in SessionIds |-> NoSession]
  /\ worker = [s \in SessionIds |-> NoWorker]
  /\ calls = [c \in Slots |-> IdleCall]
  /\ returned = NoReturn
  /\ callsLeft = MaxCalls
  /\ limits = [sessions |-> Cardinality(SessionIds), polls |-> MaxPolls, history |-> 0,
               inflight |-> 1, subscribers |-> 0, publishes |-> 0]
  /\ active_connections = [t \in TaskIds |-> <<>>]
  /\ ws_state = [w \in WebSockets |-> "new"]
  /\ received = [w \in WebSockets |-> <<>>]
  /\ publishing = [p \in Writers |-> IdleFrame]
  /\ attempt = NoAttempt
  /\ listing = NoListing
  /\ task_manager = NoTasks
  /\ background = [t \in TaskIds |-> NoBackground]
  /\ realtime = NoRealtime

NextTwo ==
  \/ \E t \in TaskIds : start_agent_session(t)
  \/ \E c \in Slots : start_agent_session_thread(c)
  \/ \E c \in Slots : start_agent_session_insert(c)
  \/ \E t \in TaskIds : pause_agent_session(t)
  \/ \E c \in Slots : pause_agent_session_step(c)
  \/ \E t \in TaskIds : resume_agent_session(t)
  \/ \E c \in Slots : resume_agent_session_step(c)
  \/ \E t \in TaskIds : stop_agent_session(t)
  \/ \E c \in Slots : stop_agent_session_join(c)
  \/ \E c \in Slots : stop_agent_session_step(c)
  \/ \E c \in Slots : stop_agent_session_cleanup(c)
  \/ \E s \in SessionIds, ok \in BOOLEAN : run_agent_thread(s, ok)
  \/ \E s \in SessionIds : run_agent_with_monitoring(s)
  \/ \E s \in SessionIds : run_agent_with_monitoring_pause(s)
  \/ \E s \in SessionIds : execute_agent_async(s)
  \/ \E s \in SessionIds, closed \in BOOLEAN : run_agent_thread_finally(s, closed)
  \/ \E s \in SessionIds, truthy \in BOOLEAN : agent_run_return(s, truthy)
  \/ \E s \in SessionIds : agent_run_raise(s)

SpecTwo == InitTwo /\ [][NextTwo]_vars

\* The coroutines raise by raise, for one task with a subscriber and a caller
\* that awaits each coroutine before it invokes the next.
InitExcept ==
  /\ task = [t \in TaskIds |->
       [status |-> PENDING, error_message |-> None, completed_at |-> 0, result |-> None]]
  /\ steps = [t \in TaskIds |-> [by \in Writers |-> <<>>]]
  /\ active_sessions = [t \in TaskIds |-> 0]
  /\ sessions = [s \in SessionIds |-> NoSession]
  /\ worker = [s \in SessionIds |-> NoWorker]
  /\ calls = [c \in Slots |-> IdleCall]
  /\ returned = NoReturn
  /\ callsLeft = MaxCalls
  /\ limits = [sessions |-> 1, polls |-> MaxPolls, history |-> 0,
               inflight |-> 1, subscribers |-> 1, publishes |-> 0]
  /\ active_connections = [t \in TaskIds |-> <<>>]
  /\ ws_state = [w \in WebSockets |-> "new"]
  /\ received = [w \in WebSockets |-> <<>>]
  /\ publishing = [p \in Writers |-> IdleFrame]
  /\ attempt = NoAttempt
  /\ listing = NoListing
  /\ task_manager = NoTasks
  /\ background = [t \in TaskIds |-> NoBackground]
  /\ realtime = NoRealtime

NextExcept ==
  \/ \E t \in Tasks : start_agent_session(t)
  \/ \E c \in Slots : start_agent_session_thread(c)
  \/ \E c \in Slots : start_agent_session_insert(c)
  \/ \E c \in Slots : start_agent_session_except(c)
  \/ \E c \in Slots : start_agent_session_return_false(c)
  \/ \E op \in {"pause", "resume", "stop"}, t \in Tasks : agent_session_check(op, t)
  \/ \E c \in Slots : agent_session_lookup(c)
  \/ \E c \in Slots : agent_session_except(c)
  \/ \E c \in Slots : pause_agent_session_step(c)
  \/ \E c \in Slots : resume_agent_session_step(c)
  \/ \E c \in Slots : stop_agent_session_join(c)
  \/ \E c \in Slots : stop_agent_session_step(c)
  \/ \E c \in Slots : stop_agent_session_cleanup_check(c)
  \/ \E c \in Slots : stop_agent_session_del(c)
  \/ \E s \in SessionIds, ok \in BOOLEAN : run_agent_thread(s, ok)
  \/ \E s \in SessionIds : run_agent_with_monitoring(s)
  \/ \E s \in SessionIds : run_agent_with_monitoring_pause(s)
  \/ \E s \in SessionIds : execute_agent_async(s)
  \/ \E s \in SessionIds, closed \in BOOLEAN : run_agent_thread_finally(s, closed)
  \/ \E s \in SessionIds, truthy \in BOOLEAN : agent_run_return(s, truthy)
  \/ \E s \in SessionIds : agent_run_raise(s)
  \/ \E ws \in WebSockets, t \in Tasks : connect(ws, t)
  \/ \E ws \in WebSockets : client_close(ws)
  \/ \E ws \in WebSockets, t \in Tasks : disconnect(ws, t)

SpecExcept == InitExcept /\ [][NextExcept]_vars

\* One call of a service's engine runner.  agent.run() returns, or raises an
\* exception with some message, before or after the engine had completed the task.
Messages == UNION {[1..n -> ErrorPhrases] : n \in 1..MaxWords}

InitAttempt ==
  /\ task = [t \in TaskIds |->
       [status |-> PENDING, error_message |-> None, completed_at |-> 0, result |-> None]]
  /\ steps = [t \in TaskIds |-> [by \in Writers |-> <<>>]]
  /\ active_sessions = [t \in TaskIds |-> 0]
  /\ sessions = [s \in SessionIds |-> NoSession]
  /\ worker = [s \in SessionIds |-> NoWorker]
  /\ calls = [c \in Slots |-> IdleCall]
  /\ returned = NoReturn
  /\ callsLeft = 0
  /\ limits = [sessions |-> 0, polls |-> 0, history |-> 0, inflight |-> 0, subscribers |-> 0,
               publishes |-> 0]
  /\ active_connections = [t \in TaskIds |-> <<>>]
  /\ ws_state = [w \in WebSockets |-> "new"]
  /\ received = [w \in WebSockets |-> <<>>]
  /\ publishing = [p \in Writers |-> IdleFrame]
  /\ \E service \in {"browserbase", "enhanced"} :
       \/ attempt = [NoAttempt EXCEPT !.service = service, !.pc = "called", !.completed = TRUE]
       \/ \E message \in Messages, completed \in BOOLEAN :
            attempt = [NoAttempt EXCEPT !.service = service, !.pc = "called", !.raised = TRUE,
                                        !.message = message, !.completed = completed]
  /\ listing = NoListing
  /\ task_manager = NoTasks
  /\ background = [t \in TaskIds |-> NoBackground]
  /\ realtime = NoRealtime

NextAttempt ==
  \/ execute_agent_task
  \/ run_automation_task_with_control

SpecAttempt == InitAttempt /\ [][NextAttempt]_vars

\* Publishes of a worker thread and of the request loop's thread (the
\* _send_step_update of pause, resume and stop), send by send, with a subscriber.
InitOrder ==
  /\ task = [t \in TaskIds |->
       [status |-> RUNNING, error_message |-> None, completed_at |-> 0, result |-> None]]
  /\ steps = [t \in TaskIds |-> [by \in Writers |-> <<>>]]
  /\ active_sessions = [t \in TaskIds |-> 0]
  /\ sessions = [s \in SessionIds |-> NoSession]
  /\ worker = [s \in SessionIds |-> NoWorker]
  /\ calls = [c \in Slots |-> IdleCall]
  /\ returned = NoReturn
  /\ callsLeft = 0
  /\ limits = [sessions |-> 0, polls |-> 0, history |-> 0, inflight |-> 0,
               subscribers |-> 1, publishes |-> MaxPublishes]
  /\ active_connections = [t \in TaskIds |-> <<>>]
  /\ ws_state = [w \in WebSockets |-> "new"]
  /\ received = [w \in WebSockets |-> <<>>]
  /\ publishing = [p \in Writers |-> IdleFrame]
  /\ attempt = NoAttempt
  /\ listing = NoListing
  /\ task_manager = NoTasks
  /\ background = [t \in TaskIds |-> NoBackground]
  /\ realtime = NoRealtime

NextOrder ==
  \/ \E p \in {RequestLoop, Publisher}, t \in Tasks, step_type \in PublishedTypes :
       send_step_update_commit(p, t, step_type)
  \/ \E p \in {RequestLoop, Publisher} : broadcast_to_task_send(p)
  \/ \E p \in {RequestLoop, Publisher} : broadcast_to_task_except(p)
  \/ \E p \in {RequestLoop, Publisher} : broadcast_to_task_remove(p)
  \/ \E p \in {RequestLoop, Publisher} : send_step_update_except(p)
  \/ \E ws \in WebSockets, t \in Tasks : connect(ws, t)
  \/ \E ws \in WebSockets : client_close(ws)
  \/ \E ws \in WebSockets, t \in Tasks : disconnect(ws, t)

SpecOrder == InitOrder /\ [][NextOrder]_vars

\* The terminal status writes of a task: the worker thread's at the end of its
\* run (lines 214, 221, 233) and stop_agent_session's on the request loop's
\* thread after a join that timed out (line 476), send by send, with subscribers.
InitStatus ==
  /\ task = [t \in TaskIds |->
       [status |-> RUNNING, error_message |-> None, completed_at |-> 0, result |-> None]]
  /\ steps = [t \in TaskIds |-> [by \in Writers |-> <<>>]]
  /\ active_sessions = [t \in TaskIds |-> 0]
  /\ sessions = [s \in SessionIds |-> NoSession]
  /\ worker = [s \in SessionIds |-> NoWorker]
  /\ calls = [c \in Slots |-> IdleCall]
  /\ returned = NoReturn
  /\ callsLeft = 0
  /\ limits = [sessions |-> 0, polls |-> 0, history |-> 0, inflight |-> 0,
               subscribers |-> Len(WsOrder), publishes |-> MaxPublishes]
  /\ active_connections = [t \in TaskIds |-> <<>>]
  /\ ws_state = [w \in WebSockets |-> "new"]
  /\ received = [w \in WebSockets |-> <<>>]
  /\ publishing = [p \in Writers |-> IdleFrame]
  /\ attempt = NoAttempt
  /\ listing = NoListing
  /\ task_manager = NoTasks
  /\ background = [t \in TaskIds |-> NoBackground]
  /\ realtime = NoRealtime

NextStatus ==
  \/ \E t \in Tasks : update_task_status_commit(RequestLoop, t, FAILED, StoppedByUser)
  \/ \E t \in Tasks : update_task_status_commit(Publisher, t, COMPLETED, None)
  \/ \E t \in Tasks : update_task_status_commit(Publisher, t, FAILED, ExecutionFailed)
  \/ \E p \in {RequestLoop, Publisher} : broadcast_to_task_send(p)
  \/ \E p \in {RequestLoop, Publisher} : broadcast_to_task_except(p)
  \/ \E p \in {RequestLoop, Publisher} : broadcast_to_task_remove(p)
  \/ \E p \in {RequestLoop, Publisher} : update_task_status_except(p)
  \/ \E ws \in WebSockets, t \in Tasks : connect(ws, t)
  \/ \E ws \in WebSockets : client_close(ws)
  \/ \E ws \in WebSockets, t \in Tasks : disconnect(ws, t)

SpecStatus == InitStatus /\ [][NextStatus]_vars

\* Two tasks, their sessions and workers, and the reads of the map made on the
\* request loop's thread while the workers run.
InitList ==
  /\ task = [t \in TaskIds |->
       [status |-> PENDING, error_message |-> None, completed_at |-> 0, result |-> None]]
  /\ steps = [t \in TaskIds |-> [by \in Writers |-> <<>>]]
  /\ active_sessions = [t \in TaskIds |-> 0]
  /\ sessions = [s \in SessionIds |-> NoSession]
  /\ worker = [s \in SessionIds |-> NoWorker]
  /\ calls = [c \in Slots |-> IdleCall]
  /\ returned = NoReturn
  /\ callsLeft = MaxCalls
  /\ limits = [sessions |-> Cardinality(SessionIds), polls |-> 0, history |-> 0,
               inflight |-> 1, subscribers |-> 0, publishes |-> 0]
  /\ active_connections = [t \in TaskIds |-> <<>>]
  /\ ws_state = [w \in WebSockets |-> "new"]
  /\ received = [w \in WebSockets |-> <<>>]
  /\ publishing = [p \in Writers |-> IdleFrame]
  /\ attempt = NoAttempt
  /\ listing = NoListing
  /\ task_manager = NoTasks
  /\ background = [t \in TaskIds |-> NoBackground]
  /\ realtime = NoRealtime

NextList ==
  \/ \E t \in TaskIds : start_agent_session(t)
  \/ \E c \in Slots : start_agent_session_thread(c)
  \/ \E c \in Slots : start_agent_session_insert(c)
  \/ \E t \in TaskIds : pause_agent_session(t)
  \/ \E c \in Slots : pause_agent_session_step(c)
  \/ \E t \in TaskIds : resume_agent_session(t)
  \/ \E c \in Slots : resume_agent_session_step(c)
  \/ \E t \in TaskIds : stop_agent_session(t)
  \/ \E c \in Slots : stop_agent_session_join(c)
  \/ \E c \in Slots : stop_agent_session_step(c)
  \/ \E c \in Slots : stop_agent_session_cleanup(c)
  \/ \E s \in SessionIds, ok \in BOOLEAN : run_agent_thread(s, ok)
  \/ \E s \in SessionIds : run_agent_with_monitoring(s)
  \/ \E s \in SessionIds : execute_agent_async(s)
  \/ \E s \in SessionIds, closed \in BOOLEAN : run_agent_thread_finally(s, closed)
  \/ \E s \in SessionIds, truthy \in BOOLEAN : agent_run_return(s, truthy)
  \/ \E s \in SessionIds : agent_run_raise(s)
  \/ \E t \in TaskIds : get_session_status(t)
  \/ get_active_sessions
  \/ get_active_sessions_next

SpecList == InitList /\ [][NextList]_vars

\* Two tasks with their sessions and workers, and a subscriber of either.
InitFrame ==
  /\ task = [t \in TaskIds |->
       [status |-> PENDING, error_message |-> None, completed_at |-> 0, result |-> None]]
  /\ steps = [t \in TaskIds |-> [by \in Writers |-> <<>>]]
  /\ active_sessions = [t \in TaskIds |-> 0]
  /\ sessions = [s \in SessionIds |-> NoSession]
  /\ worker = [s \in SessionIds |-> NoWorker]
  /\ calls = [c \in Slots |-> IdleCall]
  /\ returned = NoReturn
  /\ callsLeft = MaxCalls
  /\ limits = [sessions |-> Cardinality(SessionIds), polls |-> 0, history |-> 0,
               inflight |-> 1, subscribers |-> 1, publishes |-> 0]
  /\ active_connections = [t \in TaskIds |-> <<>>]
  /\ ws_state = [w \in WebSockets |-> "new"]
  /\ received = [w \in WebSockets |-> <<>>]
  /\ publishing = [p \in Writers |-> IdleFrame]
  /\ attempt = NoAttempt
  /\ listing = NoListing
  /\ task_manager = NoTasks
  /\ background = [t \in TaskIds |-> NoBackground]
  /\ realtime = NoRealtime

NextFrame ==
  \/ NextTwo
  \/ \E ws \in WebSockets, t \in TaskIds : connect(ws, t)
  \/ \E ws \in WebSockets : client_close(ws)
  \/ \E ws \in WebSockets, t \in TaskIds : disconnect(ws, t)

SpecFrame == InitFrame /\ [][NextFrame]_vars

\* The manager behind TaskService: every call comes through create_task,
\* pause_task, resume_task, stop_task or delete_task.  Task 1 has its row, no
\* row has the id 2.
InitTasks ==
  /\ task = [t \in TaskIds |->
       IF t \in Tasks
         THEN [status |-> PENDING, error_message |-> None, completed_at |-> 0, result |-> None]
         ELSE NoRow]
  /\ steps = [t \in TaskIds |-> [by \in Writers |-> <<>>]]
  /\ active_sessions = [t \in TaskIds |-> 0]
  /\ sessions = [s \in SessionIds |-> NoSession]
  /\ worker = [s \in SessionIds |-> NoWorker]
  /\ calls = [c \in Slots |-> IdleCall]
  /\ returned = NoReturn
  /\ callsLeft = MaxCalls
  /\ limits = [sessions |-> 1, polls |-> 1, history |-> 0,
               inflight |-> 1, subscribers |-> 0, publishes |-> 0]
  /\ active_connections = [t \in TaskIds |-> <<>>]
  /\ ws_state = [w \in WebSockets |-> "new"]
  /\ received = [w \in WebSockets |-> <<>>]
  /\ publishing = [p \in Writers |-> IdleFrame]
  /\ attempt = NoAttempt
  /\ listing = NoListing
  /\ task_manager = NoTasks
  /\ background = [t \in TaskIds |-> NoBackground]
  /\ realtime = NoRealtime

NextTasks ==
  \/ \E t \in TaskIds : create_task(t)
  \/ \E c \in Slots : start_agent_session_thread(c)
  \/ \E c \in Slots : start_agent_session_insert(c)
  \/ \E t \in TaskIds : pause_task(t)
  \/ \E c \in Slots : pause_agent_session_step(c)
  \/ \E t \in TaskIds : resume_task(t)
  \/ \E c \in Slots : resume_agent_session_step(c)
  \/ \E t \in TaskIds : stop_task(t)
  \/ \E c \in Slots : stop_agent_session_join(c)
  \/ \E c \in Slots : stop_agent_session_step(c)
  \/ \E c \in Slots : stop_agent_session_cleanup(c)
  \/ \E t \in TaskIds : delete_task(t)
  \/ \E s \in SessionIds, ok \in BOOLEAN : run_agent_thread(s, ok)
  \/ \E s \in SessionIds : run_agent_with_monitoring(s)
  \/ \E s \in SessionIds : run_agent_with_monitoring_pause(s)
  \/ \E s \in SessionIds : execute_agent_async(s)
  \/ \E s \in SessionIds, closed \in BOOLEAN : run_agent_thread_finally(s, closed)
  \/ \E s \in SessionIds, truthy \in BOOLEAN : agent_run_return(s, truthy)
  \/ \E s \in SessionIds : agent_run_raise(s)

SpecTasks == InitTasks /\ [][NextTasks]_vars

\* The TaskManager alone, its methods called in any order with any arguments.
InitTaskManager ==
  /\ task = [t \in TaskIds |->
       [status |-> PENDING, error_message |-> None, completed_at |-> 0, result |-> None]]
  /\ steps = [t \in TaskIds |-> [by \in Writers |-> <<>>]]
  /\ active_sessions = [t \in TaskIds |-> 0]
  /\ sessions = [s \in SessionIds |-> NoSession]
  /\ worker = [s \in SessionIds |-> NoWorker]
  /\ calls = [c \in Slots |-> IdleCall]
  /\ returned = NoReturn
  /\ callsLeft = MaxCalls + 1
  /\ limits = [sessions |-> 0, polls |-> 0, history |-> 0, inflight |-> 0,
               subscribers |-> 0, publishes |-> 0]
  /\ active_connections = [t \in TaskIds |-> <<>>]
  /\ ws_state = [w \in WebSockets |-> "new"]
  /\ received = [w \in WebSockets |-> <<>>]
  /\ publishing = [p \in Writers |-> IdleFrame]
  /\ attempt = NoAttempt
  /\ listing = NoListing
  /\ task_manager = NoTasks
  /\ background = [t \in TaskIds |-> NoBackground]
  /\ realtime = NoRealtime

NextTaskManager ==
  \/ \E t \in TaskIds : TaskManager_create_task(t)
  \/ \E t \in TaskIds, status \in {INITIALIZING, CONNECTING, RUNNING},
        kwargs \in {NoKwargs, Kwargs("session", "session")} :
       TaskManager_update_task_status(t, status, kwargs)
  \/ \E t \in TaskIds, result \in {None, "", "str(result)"}, error \in {None, "str(e)"} :
       TaskManager_complete_task(t, result, error)
  \/ \E t \in TaskIds : TaskManager_cancel_task(t)
  \/ \E t \in TaskIds : TaskManager_stop_task(t)

SpecTaskManager == InitTaskManager /\ [][NextTaskManager]_vars

\* EnhancedAutomationService: tasks are started, run in the background and
\* are stopped, one stop_task for a task id.
NextEnhanced ==
  \/ \E t \in TaskIds : start_task(t)
  \/ \E t \in TaskIds : execute_task_background(t)
  \/ \E t \in TaskIds, ok \in BOOLEAN : execute_task_background_connecting(t, ok)
  \/ \E t \in TaskIds, ok \in BOOLEAN : execute_task_background_session(t, ok)
  \/ \E t \in TaskIds, ok \in BOOLEAN : run_automation_task_with_control_start(t, ok)
  \/ \E t \in TaskIds : run_automation_task_with_control_run(t)
  \/ \E t \in TaskIds, outcome \in {"result", "ended", "raise"} :
       run_automation_task_with_control_end(t, outcome)
  \/ \E t \in TaskIds : execute_task_background_except(t)
  \/ \E t \in TaskIds : EnhancedAutomationService_stop_task(t)
  \/ \E t \in TaskIds : EnhancedAutomationService_stop_task_return(t)

SpecEnhanced == InitTaskManager /\ [][NextEnhanced]_vars

\* BrowserAgentRealtimeManager: websockets connect for a session and go away,
\* and one task runs with its broadcasts.
InitRealtime == InitTaskManager

NextRealtime ==
  \/ \E ws \in WebSockets, session_id \in TaskIds : connect_websocket(ws, session_id)
  \/ \E ws \in WebSockets : websocket_closes(ws)
  \/ \E ws \in WebSockets : disconnect_websocket(ws)
  \/ \E session_id \in TaskIds : execute_task_with_realtime(session_id)
  \/ broadcast_update_send
  \/ broadcast_update_remove
  \/ \E outcome \in {"log_update", "log_error", "no_file", "raise"} :
       execute_with_logging(outcome)

SpecRealtime == InitRealtime /\ [][NextRealtime]_vars

\* ------------------------------------------------------------------ properties
\* Steps of the manager's coroutines, as seen from outside.
\* The coroutine op(t) is invoked and passes its membership check.
Accepted(op, t) ==
  \E c \in Slots : calls[c].op = "none" /\ calls'[c].op = op /\ calls'[c].task_id = t

\* The coroutine op(t) is invoked and returns False at its membership check.
Rejected(op, t) ==
  /\ callsLeft' = callsLeft - 1
  /\ calls' = calls
  /\ returned' = [op |-> op, task_id |-> t, ret |-> FALSE]

\* The coroutine op in slot c returns to its caller.
ReturnsFrom(c, op) == calls[c].op = op /\ calls'[c].op = "none"

Terminal == {COMPLETED, FAILED}

C2_OneEngineRunPerTask ==
  \A t \in Tasks :
    Cardinality({s \in SessionIds :
                   /\ sessions[s].task_id = t
                   /\ ThreadAlive(s)
                   /\ worker[s].agent_task = "running"}) <= 1

\* C3. The persisted status of a task changes only along pending -> running,
\* running -> paused, paused -> running and running/paused -> completed/failed.
StatusTransitions ==
  { <<PENDING, RUNNING>>, <<RUNNING, PAUSED>>, <<PAUSED, RUNNING>>,
    <<RUNNING, COMPLETED>>, <<RUNNING, FAILED>>,
    <<PAUSED, COMPLETED>>, <<PAUSED, FAILED>> }

C3_StatusTransitions ==
  [][\A t \in Tasks :
       task'[t].status # task[t].status =>
         <<task[t].status, task'[t].status>> \in StatusTransitions]_vars

\* C4. completed_at is set exactly when the status is completed or failed, and a
\* terminal status is written once in the life of a task, by the worker of the
\* task's Session in its finalization, never by a coroutine of the request loop.
C4_TerminalWrittenOnceByWorker ==
  /\ [](\A t \in Tasks : (task[t].completed_at # 0) <=> (task[t].status \in Terminal))
  /\ [][\A t \in Tasks :
          task'[t].completed_at # task[t].completed_at =>
            /\ task[t].completed_at = 0
            /\ calls' = calls
            /\ \E s \in SessionIds :
                 /\ sessions[s].task_id = t
                 /\ worker[s].pc = "finalize" /\ worker'[s].pc = "cleanup"]_vars

\* No coroutine of the manager is in flight and no worker thread is alive.
Quiescent ==
  /\ \A c \in Slots : calls[c].op = "none"
  /\ \A s \in SessionIds : ~ThreadAlive(s)

\* C5. Once stop_agent_session has returned True and everything has come to rest,
\* the task is failed and its error message is the one of a stop by the user.
C5_StoppedTaskEndsFailed ==
  \A t \in Tasks :
    returned = [op |-> "stop", task_id |-> t, ret |-> TRUE] /\ Quiescent =>
      task[t].status = FAILED /\ task[t].error_message = StoppedByUser

\* C6. A stop for a task id with no registered Session returns False and leaves
\* the Task rows, the Step rows, the Session map and the subscriber lists as they
\* were; a stop is accepted only for a task id whose Session is registered.
C6_StopWithoutSession ==
  [][\A t \in Tasks :
       /\ Rejected("stop", t) =>
            /\ active_sessions[t] = 0
            /\ UNCHANGED <<task, steps, active_sessions, sessions, worker,
                           active_connections, received, ws_state, publishing>>
       /\ Accepted("stop", t) => active_sessions[t] # 0]_vars

\* A second stop has returned False after a stop of a started task went through,
\* with a subscriber of the task connected.
C6_Witness ==
  /\ returned = [op |-> "stop", task_id |-> 1, ret |-> FALSE]
  /\ callsLeft = 0
  /\ Len(steps[1][RequestLoop]) = 1
  /\ task[1].error_message = StoppedByUser
  /\ Len(active_connections[1]) = 1

\* C7. An accepted stop returns True, and when it returns the map holds no
\* Session for the task id, whether the worker thread has ended or not; and every
\* stop returns, whatever the worker does.
C7_StopUnregistersAndReturns ==
  /\ [][\A c \in Slots :
          ReturnsFrom(c, "stop") =>
            /\ returned' = [op |-> "stop", task_id |-> calls[c].task_id, ret |-> TRUE]
            /\ active_sessions'[calls[c].task_id] = 0]_vars
  /\ \A c \in Slots : (calls[c].op = "stop") ~> (calls[c].op # "stop")

\* A stop has returned True while the worker thread it asked to stop is still alive.
C7_Witness ==
  /\ returned = [op |-> "stop", task_id |-> 1, ret |-> TRUE]
  /\ active_sessions[1] = 0
  /\ \E s \in SessionIds : sessions[s].stop_event /\ ThreadAlive(s)

\* C8. pause and resume for a task id with no registered Session return False and
\* change nothing.  With a Session registered, pause sets its pause event and
\* writes paused, resume clears its pause event and writes running, and both
\* return True.
C8_PauseResume ==
  [][\A t \in Tasks :
       /\ Rejected("pause", t) \/ Rejected("resume", t) =>
            /\ active_sessions[t] = 0
            /\ UNCHANGED <<task, steps, active_sessions, sessions, worker,
                           active_connections, received>>
       /\ Accepted("pause", t) =>
            /\ active_sessions[t] # 0
            /\ sessions'[active_sessions[t]].pause_event
            /\ task'[t].status = PAUSED
       /\ Accepted("resume", t) =>
            /\ active_sessions[t] # 0
            /\ ~sessions'[active_sessions[t]].pause_event
            /\ task'[t].status = RUNNING
       /\ \A c \in Slots, op \in {"pause", "resume"} :
            ReturnsFrom(c, op) /\ calls[c].task_id = t =>
              returned' = [op |-> op, task_id |-> t, ret |-> TRUE]]_vars

\* A resume has returned True after a pause of the same Session did, and the
\* worker, which had entered the pause wait, is back in its loop.
C8_Witness ==
  /\ returned = [op |-> "resume", task_id |-> 1, ret |-> TRUE]
  /\ steps[1][RequestLoop] = <<Step(StepType_OBSERVATION, TaskPaused),
                               Step(StepType_OBSERVATION, TaskResumed)>>
  /\ active_sessions[1] # 0
  /\ ~sessions[active_sessions[1]].pause_event
  /\ worker[active_sessions[1]].pc = "loop"
  /\ worker[active_sessions[1]].step_count >= 1
  /\ task[1].status = RUNNING

\* C9. A task started once, paused, resumed, and whose engine run ended normally,
\* is completed once everything has come to rest.
C9_ResumedTaskEndsCompleted ==
  \A t \in Tasks :
    ( /\ Quiescent
      /\ SessionsBorn = 1
      /\ steps[t][RequestLoop] = <<Step(StepType_OBSERVATION, TaskPaused),
                                   Step(StepType_OBSERVATION, TaskResumed)>>
      /\ \E i \in 1..Len(steps[t][1]) :
           steps[t][1][i].message \in {CompletedWithResult, CompletedWithoutResult} )
    => task[t].status = COMPLETED

\* C10. An engine run that has produced more history entries than the step cap
\* ends with the task failed, its error message the one of the exceeded cap, and
\* at most cap + 1 Step rows.
C10_RunawayEngineFails ==
  [][\A s \in SessionIds :
       worker[s].pc = "finalize" /\ worker'[s].pc = "cleanup"
         /\ Len(worker[s].history) > max_steps =>
       LET t == sessions[s].task_id IN
         /\ task'[t].status = FAILED
         /\ task'[t].error_message = MaxStepsExceeded
         /\ Len(steps'[t][s]) + Len(steps'[t][RequestLoop]) <= max_steps + 1]_vars

\* The rows worker s wrote for task t that carry parts of history entries, and
\* the rows of its entry i.
EntryRows(t, s) == SelectSeq(steps[t][s], LAMBDA row : row.entry # 0)

RowsOfEntry(s, i) ==
  {k \in 1..Len(steps[sessions[s].task_id][s]) : steps[sessions[s].task_id][s][k].entry = i}

Monitoring(s) == worker[s].pc \in {"loop", "pause"}

\* C11. When the engine's run has returned and the monitor hands its result back,
\* every entry of the history has exactly one Step row.
C11_OneStepPerEntry ==
  \A s \in SessionIds :
    worker[s].pc = "finalize" /\ worker[s].outcome \in {"result", "empty"} =>
      \A i \in 1..Len(worker[s].history) : Cardinality(RowsOfEntry(s, i)) = 1

\* C12. The rows that derive from history entries are in the order of the
\* entries, and no entry yields two rows of one step type; the monitor's cursor
\* never decreases, and a poll emits rows of the entries between the cursor and
\* the length of the history only, and moves the cursor to that length.
C12_EntriesInOrderOnce ==
  /\ [](\A t \in Tasks, s \in SessionIds :
          \A j, k \in 1..Len(EntryRows(t, s)) :
            j < k => /\ EntryRows(t, s)[j].entry <= EntryRows(t, s)[k].entry
                     /\ EntryRows(t, s)[j].entry = EntryRows(t, s)[k].entry
                          => EntryRows(t, s)[j].step_type # EntryRows(t, s)[k].step_type)
  /\ [][\A s \in SessionIds :
          Monitoring(s) /\ Monitoring(s)' =>
            /\ worker'[s].last_history_length >= worker[s].last_history_length
            /\ worker'[s].step_count # worker[s].step_count =>
                 LET t == sessions[s].task_id
                     old == Len(steps[t][s])
                 IN /\ worker'[s].last_history_length = Len(worker[s].history)
                    /\ SubSeq(steps'[t][s], 1, old) = steps[t][s]
                    /\ \A k \in (old + 1)..Len(steps'[t][s]) :
                         /\ steps'[t][s][k].entry > worker[s].last_history_length
                         /\ steps'[t][s][k].entry <= Len(worker[s].history)]_vars

\* The monitor has polled twice, its cursor is past two entries, and both have rows.
C12_Witness ==
  \E s \in SessionIds :
    /\ Monitoring(s)
    /\ worker[s].step_count = 2
    /\ worker[s].last_history_length = 2
    /\ RowsOfEntry(s, 1) # {}
    /\ RowsOfEntry(s, 2) # {}

\* C14. Every history entry the monitor has processed has at least one Step row,
\* and an entry with nothing to classify has exactly one.
C14_NoEntryWithoutStep ==
  \A s \in SessionIds :
    Monitoring(s) =>
      \A i \in 1..worker[s].last_history_length :
        /\ RowsOfEntry(s, i) # {}
        /\ LET entry == worker[s].history[i] IN
           ~(entry.current_state \/ entry.action \/ entry.result \/ entry.error)
             => Cardinality(RowsOfEntry(s, i)) = 1

\* The worker of session s writes the final status of its run.
Finalizes(s) == worker[s].pc = "finalize" /\ worker'[s].pc = "cleanup"

\* C13. When the engine's run returned a value, the worker writes completed and
\* stores the value in the result of the Task row.
C13_ResultStored ==
  [][\A s \in SessionIds :
       Finalizes(s) /\ worker[s].outcome = "result" =>
         /\ task'[sessions[s].task_id].status = COMPLETED
         /\ task'[sessions[s].task_id].result # None]_vars

C16_NoSessionOfDeadWorker ==
  \A t \in Tasks :
    active_sessions[t] # 0 => worker[active_sessions[t]].pc # "dead"

\* C17. A publish never raises because of a failing subscriber, also when
\* subscribers connect or disconnect while it is in progress: no call of
\* broadcast_to_task ends in an exception.
C17_PublishNeverRaises ==
  \A p \in Writers : publishing[p].pc # "raised"

IsStepUpdate(m) == m.type = "step_update"

\* The websocket was accepted for the task before place j of what it received,
\* when the writer had written n rows.
AcceptedBefore(ws, j, t, by, n) ==
  \E i \in 1..(j - 1) :
    /\ received[ws][i].type = "accepted"
    /\ received[ws][i].task_id = t
    /\ received[ws][i].seen[by] = n

\* C19. Where every websocket is connected once, as websocket_endpoint does:
\* a websocket receives the step_update of a row at most once; it receives none
\* of a row that was committed and published before it was accepted; every row
\* it was sent, and every row written before it was accepted, is among the
\* persisted Steps, which are only ever appended to.  (A row is committed and
\* the list of its broadcast copied in one step of the model, so a row written
\* before the accept is a row published before it.)
C19_AtMostOnceNoReplay ==
  /\ [](\A ws \in WebSockets : \A j \in 1..Len(received[ws]) :
          LET m == received[ws][j] IN
          /\ IsStepUpdate(m) =>
               /\ \A i \in 1..(j - 1) :
                    IsStepUpdate(received[ws][i]) =>
                      ~(received[ws][i].at = m.at /\ received[ws][i].task_id = m.task_id)
               /\ \E n \in 0..(m.at[2] - 1) : AcceptedBefore(ws, j, m.task_id, m.at[1], n)
               /\ Len(steps[m.task_id][m.at[1]]) >= m.at[2]
               /\ steps[m.task_id][m.at[1]][m.at[2]] = m.step
          /\ m.type = "accepted" =>
               \A by \in Writers : Len(steps[m.task_id][by]) >= m.seen[by])
  /\ [][\A t \in Tasks, by \in Writers :
          /\ Len(steps'[t][by]) >= Len(steps[t][by])
          /\ SubSeq(steps'[t][by], 1, Len(steps[t][by])) = steps[t][by]]_vars

\* The first websocket received a worker's first row; the second, accepted
\* after that row was published, received the worker's second row only.
C19_Witness ==
  \E by \in SessionIds, t \in Tasks :
    /\ \E j \in 1..Len(received[WsOrder[1]]) :
         IsStepUpdate(received[WsOrder[1]][j]) /\ received[WsOrder[1]][j].at = <<by, 1>>
    /\ \E j \in 1..Len(received[WsOrder[2]]) :
         /\ IsStepUpdate(received[WsOrder[2]][j])
         /\ received[WsOrder[2]][j].at = <<by, 2>>
         /\ AcceptedBefore(WsOrder[2], j, t, by, 1)
    /\ Len(steps[t][by]) = 2

\* C20. Every Task status write is followed by a publish of the matching
\* event: a step that changes a Task's status or error_message leaves, as the
\* last message of every open websocket registered for the task, the
\* status_change of the new status.
C20_StatusWriteIsPublished ==
  [][\A t \in Tasks :
       (task'[t].status # task[t].status \/ task'[t].error_message # task[t].error_message) =>
         \A ws \in WebSockets :
           (ws_state[ws] = "open" /\ InList(active_connections[t], ws)) =>
             /\ Len(received'[ws]) > Len(received[ws])
             /\ LET m == received'[ws][Len(received'[ws])] IN
                /\ m.type = "status_change"
                /\ m.task_id = t
                /\ m.status = task'[t].status
                /\ m.error_message \in {None, task'[t].error_message}]_vars

\* C21. The number of engine runs in progress never exceeds the capacity of
\* the limiter, however many Sessions are started.
C21_EngineRunsWithinCapacity ==
  Cardinality({s \in SessionIds : ThreadAlive(s) /\ worker[s].agent_task = "running"})
    <= browser_semaphore

\* The websocket has received a status_change of the task with a terminal status.
ReceivedTerminal(ws, t) ==
  \E j \in 1..Len(received[ws]) :
    /\ received[ws][j].type = "status_change"
    /\ received[ws][j].task_id = t
    /\ received[ws][j].status \in Terminal

\* C22. A subscription ends with the task: once a subscriber has received the
\* terminal status_change and everything has come to rest, its websocket is
\* closed and it is no longer registered for the task.
C22_TerminalEndsSubscription ==
  \A ws \in WebSockets, t \in Tasks :
    Quiescent /\ ReceivedTerminal(ws, t) =>
      ws_state[ws] # "open" /\ ~InList(active_connections[t], ws)

\* A send of the broadcast for the task raises: a websocket of its list is closed.
SendRaises(t) ==
  \E ws \in WebSockets : InList(active_connections[t], ws) /\ ws_state[ws] = "closed"

\* C23 as stated. An exception raised inside pause_agent_session or
\* resume_agent_session by the broadcaster is turned into a False return or a
\* failed Task status.
C23_ExceptionsGiveFalseOrFailed ==
  [][\A c \in Slots :
       ( /\ ReturnsFrom(c, "pause") \/ ReturnsFrom(c, "resume")
         /\ calls[c].pc = "await_status"
         /\ SendRaises(calls[c].task_id) )
       => (returned'.ret = FALSE \/ task'[calls[c].task_id].status = FAILED)]_vars

\* C23, amended. The four coroutines never raise to their caller: an
\* exception that reaches a coroutine's handler makes it return False, for
\* start after the task was written failed; a send that raises inside
\* _send_step_update is dealt with there and the coroutine returns True.
C23_NeverRaises ==
  [][\A c \in Slots :
       /\ (calls[c].pc = "raised" /\ calls'[c] # calls[c])
            => returned' = [op |-> calls[c].op, task_id |-> calls[c].task_id, ret |-> FALSE]
       /\ (calls[c].op = "start" /\ calls[c].pc = "except" /\ calls'[c] # calls[c])
            => /\ returned' = [op |-> "start", task_id |-> calls[c].task_id, ret |-> FALSE]
               /\ task'[calls[c].task_id].status = FAILED
       /\ ( /\ ReturnsFrom(c, "pause") \/ ReturnsFrom(c, "resume")
            /\ calls[c].pc = "await_status" )
            => returned'.ret = TRUE]_vars

\* KeyError is raised inside a pause: its membership test passed, and the
\* worker thread has removed the Session since.
C23_Witness ==
  \E c \in Slots :
    /\ calls[c].op = "pause" /\ calls[c].pc = "raised"
    /\ \E s \in SessionIds : worker[s].pc = "dead"

\* The worker of session s runs the finally blocks of lines 235-251 and 127-134.
CleansUp(s) == worker[s].pc = "cleanup" /\ worker'[s].pc = "dead"

\* C24. Whether or not closing the browser raises, the worker's cleanup leaves
\* every Task row as the run left it and returns nothing to a caller; and a stop
\* that found a Session returns True.
C24_CleanupKeepsStatus ==
  [][/\ \A s \in SessionIds : CleansUp(s) => task' = task /\ returned' = returned
     /\ \A c \in Slots : ReturnsFrom(c, "stop") /\ calls[c].session # 0 => returned'.ret = TRUE]_vars

\* A run ended completed, closing its browser raised, and the worker has ended:
\* the last row is the announcement of the close and the task is completed.
C24_Witness ==
  /\ \A s \in SessionIds : worker[s].pc \in {"unborn", "dead"}
  /\ worker[1].pc = "dead"
  /\ task[1].status = COMPLETED
  /\ steps[1][1] # <<>>
  /\ steps[1][1][Len(steps[1][1])] = Step(StepType_ACTION, "Closing browser session...")

\* C25. An exception of the engine's run is made a success only when it arose
\* after the run had logically completed.
C25_SuccessOnlyAfterCompletion ==
  attempt.pc = "returned" /\ attempt.raised /\ attempt.success => attempt.completed

\* C26. The step_update messages of a task reach a subscriber in the order in
\* which their rows were persisted.
C26_DeliveredInPersistedOrder ==
  \A ws \in WebSockets : \A i, j \in 1..Len(received[ws]) :
    ( /\ i < j
      /\ IsStepUpdate(received[ws][i]) /\ IsStepUpdate(received[ws][j])
      /\ received[ws][i].task_id = received[ws][j].task_id )
    => received[ws][i].persisted < received[ws][j].persisted

\* The status_change messages of the task among what a websocket has received.
StatusChanges(ws, t) ==
  SelectSeq(received[ws], LAMBDA m : m.type = "status_change" /\ m.task_id = t)

\* C27. Status_change events reach a subscriber in the order of the status
\* writes: when no broadcast is in progress, the last status_change an open,
\* registered websocket has received for a task carries the persisted status.
C27_LastEventIsFinalStatus ==
  \A ws \in WebSockets, t \in Tasks :
    ( /\ \A p \in Writers : publishing[p].pc = "idle"
      /\ ws_state[ws] = "open" /\ InList(active_connections[t], ws)
      /\ StatusChanges(ws, t) # <<>> )
    => StatusChanges(ws, t)[Len(StatusChanges(ws, t))].status = task[t].status

\* C28. get_session_status and get_active_sessions change nothing but what
\* they return, and a read never fails, whatever the worker threads do to the
\* map meanwhile.
C28_ReadsNeverFail ==
  [][listing' # listing =>
       /\ UNCHANGED <<task, steps, active_sessions, sessions, worker, active_connections>>
       /\ ~listing'.raised]_vars

\* The tasks a step works for: those of the calls and of the workers that move.
ActingTasks ==
  UNION {{calls[c].task_id, calls'[c].task_id} : c \in {c \in Slots : calls'[c] # calls[c]}}
  \cup UNION {{sessions[s].task_id, sessions'[s].task_id} :
               s \in {s \in SessionIds : worker'[s] # worker[s]}}

\* Nothing of task b changes: its row, its Steps, its entry in the map, its
\* Sessions with their events, their workers, and its subscribers.
TaskUntouched(b) ==
  /\ task'[b] = task[b]
  /\ steps'[b] = steps[b]
  /\ active_sessions'[b] = active_sessions[b]
  /\ active_connections'[b] = active_connections[b]
  /\ \A s \in SessionIds :
       sessions[s].task_id = b => sessions'[s] = sessions[s] /\ worker'[s] = worker[s]

\* What a websocket receives in a step.
NewlyReceived(ws) == SubSeq(received'[ws], Len(received[ws]) + 1, Len(received'[ws]))

\* C29. A step of a start, pause, resume or stop call or of a worker leaves
\* every task it does not work for untouched, and a message reaches only
\* websockets registered for the task the message is about.
C29_TasksAreIsolated ==
  [][/\ \A b \in TaskIds : (ActingTasks # {} /\ b \notin ActingTasks) => TaskUntouched(b)
     /\ \A ws \in WebSockets : \A i \in 1..Len(NewlyReceived(ws)) :
          LET m == NewlyReceived(ws)[i] IN
            \/ InList(active_connections[m.task_id], ws)
            \/ InList(active_connections'[m.task_id], ws)]_vars

\* Task 2 has a Session and a subscriber that has received its events when a
\* stop of task 1 returns True.
C29_Witness ==
  /\ returned.op = "stop" /\ returned.task_id = 1 /\ returned.ret
  /\ active_sessions[2] # 0
  /\ \E ws \in WebSockets :
       /\ InList(active_connections[2], ws)
       /\ Len(received[ws]) > 1

\* C30. A task's error_message is set only while its status is failed, and
\* its result only while its status is completed.
C30_ErrorOnlyWhenFailed ==
  \A t \in TaskIds :
    /\ task[t].error_message # None => task[t].status = FAILED
    /\ task[t].result # None => task[t].status = COMPLETED

\* C31. A monitor whose Session has its stop event set leaves the monitoring
\* loop, from the pause wait too, whether or not the engine's run ends; and
\* once it has seen the stop event it writes no row for a history entry.
C31_StopEndsMonitoring ==
  /\ \A s \in SessionIds :
       (sessions[s].stop_event /\ Monitoring(s)) ~> ~Monitoring(s)
  /\ [][\A s \in SessionIds, t \in Tasks :
         worker[s].outcome = "stop" => EntryRows(t, s)' = EntryRows(t, s)]_vars

\* The monitor has left on the stop event, out of the pause wait, from an engine
\* run that was not done and with a history entry it had not processed.
C31_Witness ==
  \E s \in SessionIds :
    /\ worker[s].pc = "finalize" /\ worker[s].outcome = "stop"
    /\ steps[sessions[s].task_id][s][Len(steps[sessions[s].task_id][s])].message
         # "Task stopped by user request"
    /\ \E i \in 1..Len(worker[s].history) : RowsOfEntry(s, i) = {}

\* C32. When start_agent_session returns True, the Session it has put in the
\* map has its stop event and its pause event clear and the status running,
\* whatever the events of the earlier Sessions of the task id are.
C32_StartMakesFreshSession ==
  [][\A c \in Slots :
       calls[c].op = "start" /\ calls[c].pc = "started" /\ calls'[c].pc = "idle" =>
         LET s == active_sessions'[calls[c].task_id] IN
           /\ s = calls[c].session
           /\ ~sessions'[s].stop_event
           /\ ~sessions'[s].pause_event
           /\ sessions'[s].status = RUNNING]_vars

\* A start has returned True for a task whose earlier Session, stopped, still
\* has its worker running.
C32_Witness ==
  /\ returned.op = "start" /\ returned.ret
  /\ \E old, new \in SessionIds :
       /\ old # new
       /\ sessions[old].task_id = returned.task_id /\ sessions[old].stop_event
       /\ active_sessions[returned.task_id] = new
       /\ ~sessions[new].stop_event

\* The monitor of session s is in the pause wait, and the wait goes on.
PauseWaits(s) ==
  worker[s].pc = "pause" /\ sessions[s].pause_event /\ ~sessions[s].stop_event

\* C33. While the pause event is set and the stop event is not, a monitor in the
\* pause wait stays there: it does not cancel the engine's run, writes no Step
\* row and no status.  The monitor enters the pause wait from the top of its
\* loop only, between two polls, and writes nothing as it does.
C33_PauseWaitIsIdle ==
  [][\A s \in SessionIds :
       /\ PauseWaits(s) =>
            /\ worker'[s].pc = "pause"
            /\ worker'[s].agent_task # "cancelled"
            /\ worker'[s].last_history_length = worker[s].last_history_length
            /\ \A t \in TaskIds : steps'[t][s] = steps[t][s]
            /\ task'[sessions[s].task_id].status \in Terminal
                 => task'[sessions[s].task_id] = task[sessions[s].task_id]
       /\ worker[s].pc # "pause" /\ worker'[s].pc = "pause" =>
            /\ worker[s].pc = "loop"
            /\ \A t \in TaskIds : steps'[t][s] = steps[t][s]]_vars

\* The monitor waits in the pause wait while the engine has appended an entry
\* the monitor has not processed.
C33_Witness ==
  \E s \in SessionIds :
    /\ PauseWaits(s)
    /\ Len(worker[s].history) > worker[s].last_history_length

\* A method of TaskService calls the manager's coroutine op for the task, and
\* a method returns False at its own check.
InvokesRegistry(op, t) == Accepted(op, t) \/ Rejected(op, t)

Refuses(method, t) ==
  /\ callsLeft' = callsLeft - 1
  /\ calls' = calls
  /\ returned' = [op |-> method, task_id |-> t, ret |-> FALSE]

\* C34. TaskService calls the manager's pause only for a task whose row says
\* running, its resume only for one that says paused, its stop only for one that
\* says neither completed nor failed, and deletes only a row that says neither
\* running nor paused.  A method that returns False at its own check, as every
\* method does for an id without a row, calls nothing and changes no record;
\* and every call is the one or the other.
C34_TaskServiceGuards ==
  [][\A t \in TaskIds :
       /\ InvokesRegistry("pause", t) => task[t] # NoRow /\ task[t].status = RUNNING
       /\ InvokesRegistry("resume", t) => task[t] # NoRow /\ task[t].status = PAUSED
       /\ InvokesRegistry("stop", t) => task[t] # NoRow /\ task[t].status \notin Terminal
       /\ (callsLeft' = callsLeft - 1 /\ calls' = calls
              /\ returned' = [op |-> "delete_task", task_id |-> t, ret |-> TRUE]) =>
            /\ task[t] # NoRow /\ task[t].status \notin {RUNNING, PAUSED}
            /\ task'[t] = NoRow
       /\ Refuses("pause_task", t) => task[t] = NoRow \/ task[t].status # RUNNING
       /\ Refuses("resume_task", t) => task[t] = NoRow \/ task[t].status # PAUSED
       /\ Refuses("stop_task", t) => task[t] = NoRow \/ task[t].status \in Terminal
       /\ Refuses("delete_task", t) => task[t] = NoRow \/ task[t].status \in {RUNNING, PAUSED}
       /\ \A method \in {"pause_task", "resume_task", "stop_task", "delete_task"} :
            Refuses(method, t) =>
              UNCHANGED <<task, steps, active_sessions, sessions, worker, calls,
                          active_connections, received>>
       /\ (task[t] = NoRow /\ callsLeft' = callsLeft - 1 /\ calls' = calls
              /\ returned'.task_id = t) =>
            \E method \in {"pause_task", "resume_task", "stop_task", "delete_task"} :
              Refuses(method, t)]_vars

\* pause_task has returned False at its own check for a paused task whose
\* Session is in the map: the manager's pause would have been accepted.
C34_Witness ==
  /\ returned = [op |-> "pause_task", task_id |-> 1, ret |-> FALSE]
  /\ task[1].status = PAUSED
  /\ active_sessions[1] # 0

\* The worker thread of session s is alive.
Alive(s) == worker[s].pc \notin {"unborn", "dead"}

\* C35. Once the start that made it has put it in the map, the Session of a
\* live worker whose stop event is not set is the one the map holds for its
\* task id.
C35_LiveWorkerIsRegistered ==
  \A s \in SessionIds :
    ( /\ Alive(s)
      /\ ~sessions[s].stop_event
      /\ ~\E c \in Slots : calls[c].pc = "started" /\ calls[c].session = s )
    => active_sessions[sessions[s].task_id] = s

\* C36. The status a Session carries is running or paused, and so is every
\* status the reads of the map return.  A Session is made running; an accepted
\* pause makes it paused, an accepted resume running, and no other step, of a
\* worker or of a call, changes it.
C36_MirrorFollowsPauseResume ==
  [][/\ \A t \in TaskIds : listing'.result[t] \in {RUNNING, PAUSED, None, Absent}
     /\ \A s \in SessionIds :
          LET t == sessions'[s].task_id IN
            /\ t # 0 => sessions'[s].status \in {RUNNING, PAUSED}
            /\ (sessions[s].task_id = 0 /\ t # 0) => sessions'[s].status = RUNNING
            /\ (sessions[s].task_id # 0 /\ t # 0) =>
                 sessions'[s].status =
                   IF Accepted("pause", t) /\ active_sessions[t] = s THEN PAUSED
                   ELSE IF Accepted("resume", t) /\ active_sessions[t] = s THEN RUNNING
                   ELSE sessions[s].status]_vars

\* get_active_sessions has returned paused for a task whose worker has written
\* its final status.
C36_Witness ==
  /\ listing.op = "list" /\ listing.pc = "done" /\ ~listing.raised
  /\ \E t \in TaskIds :
       /\ listing.result[t] = PAUSED
       /\ active_sessions[t] # 0
       /\ worker[active_sessions[t]].pc = "cleanup"

\* C37. Every step_update a websocket has received is that of a row the
\* table holds, at the place the event names; a row whose commit raised is
\* not broadcast.
C37_BroadcastRowsArePersisted ==
  \A ws \in WebSockets : \A j \in 1..Len(received[ws]) :
    LET m == received[ws][j] IN
      m.type = "step_update" =>
        /\ m.at[2] <= Len(steps[m.task_id][m.at[1]])
        /\ steps[m.task_id][m.at[1]][m.at[2]] = m.step

\* The commit of a row has raised while the task has an open subscriber that
\* has received the step_update of an earlier row.
C37_Witness ==
  \E p \in SessionIds, ws \in WebSockets :
    /\ publishing[p].pc = "raised" /\ publishing[p].connections = <<>>
    /\ ws_state[ws] = "open" /\ InList(active_connections[publishing[p].task_id], ws)
    /\ \E j \in 1..Len(received[ws]) : received[ws][j].type = "step_update"

\* C38. No task id is in active_tasks and in completed_tasks at once, and the
\* record of an id in completed_tasks is never changed, whatever is called.
C38_CompletedRecordsAreFinal ==
  /\ [](\A t \in TaskIds : ~(InActive(task_manager, t) /\ InCompleted(task_manager, t)))
  /\ [][\A t \in TaskIds :
         InCompleted(task_manager, t) =>
           /\ task_manager'.completed_tasks[t] = task_manager.completed_tasks[t]
           /\ ~InActive(task_manager', t)]_vars

\* stop_task was called for a task that complete_task had recorded completed.
C38_Witness ==
  /\ returned.op = "TaskManager.stop_task"
  /\ InCompleted(task_manager, returned.task_id)
  /\ task_manager.completed_tasks[returned.task_id].status = COMPLETED

\* C39. Once EnhancedAutomationService.stop_task has returned True for a
\* task, the status of its record is neither running nor completed.
C39_StoppedStaysStopped ==
  \A t \in TaskIds :
    background[t].stop = "returned True" =>
      get_task(task_manager, t).status \notin {RUNNING, COMPLETED}

\* The events of a session that the claim C40 names.
SessionEvents == {"task_start", "task_complete", "task_error", "log_update"}

\* No websocket has received an event of a session other than its own.
C40_OnlyOwnSession ==
  \A ws \in WebSockets : \A m \in realtime.websocket[ws].received :
    m[1] \in SessionEvents => m[2] = realtime.websocket[ws].session_id

\* No broadcast_update has raised.
C40_BroadcastNeverRaises == ~realtime.raised

\* C40. BrowserAgentRealtimeManager delivers the events of a session only to
\* the websockets connected for that session, and broadcast_update never
\* raises when disconnect_websocket removes a connection during the broadcast.
C40_SessionEventsAreIsolated == C40_OnlyOwnSession /\ C40_BroadcastNeverRaises

====
